---- MODULE Spec2Model ----
(***************************************************************************)
(* Command interpretation pipeline of the Kiro calendar assistant:         *)
(* NLPService.parseCommand (cache lookup, rate-limit cool-down, remote     *)
(* parse with retries, local fallback parse) over the MemoryCache          *)
(* singleton.  Times are milliseconds as returned by Date.now().           *)
(* Confidences are hundredths (0.6 is 60).  A text is a sequence of        *)
(* tokens: maximal runs of letters, and every other character (a digit, a  *)
(* blank, a punctuation mark) on its own.  A Date is a day number (days    *)
(* since 2024-01-01, a Monday, in local time) and the milliseconds since   *)
(* that day's midnight.                                                    *)
(***************************************************************************)
EXTENDS Integers, Sequences, FiniteSets, TLC

\* ------------------------------------------------------------------ bounds
MaxCalls == 3
MaxRequests == 3
StartTime == 5000000
MaxTicks == 3
MaxInterval == 2
MaxOccurrences == 2

\* ------------------------------------------------------- program constants
maxRetries == 3
retryDelay == 1000
ParseCacheTtl == 3600
DefaultRetryAfter == 60
ConfigCacheTtl == 3600
LocalConfidenceMatch == 60
LocalConfidenceUnknown == 30
DefaultAIConfidence == 50

Calls == 1..MaxCalls

\* --------------------------------------------------------------- the enum
CommandIntent ==
  { "CREATE_EVENT", "UPDATE_EVENT", "DELETE_EVENT", "LIST_EVENTS",
    "QUERY_SCHEDULE", "ADD_CONTACT", "QUERY_CONTACT", "SET_REMINDER",
    "FIND_TIME", "FIND_FREE_TIME", "ADD_ATTENDEE", "CHECK_CONFLICTS",
    "UNKNOWN" }

\* ------------------------------------------------------------ text helpers
\* String.prototype.toLowerCase on one token of the vocabulary in use.
LowerToken(t) ==
  CASE t = "Schedule" -> "schedule"
    [] t = "SCHEDULE" -> "schedule"
    [] t = "Meeting"  -> "meeting"
    [] t = "Invite"   -> "invite"
    [] t = "Sarah"    -> "sarah"
    [] t = "Hello"    -> "hello"
    [] t = "Create"   -> "create"
    [] t = "Show"     -> "show"
    [] t = "John"     -> "john"
    [] t = "Monday"   -> "monday"
    [] t = "Friday"   -> "friday"
    [] t = "PM"       -> "pm"
    [] OTHER          -> t

toLowerCase(s) == [i \in 1..Len(s) |-> LowerToken(s[i])]

IsWhitespace(t) == t \in {" ", "\t", "\n"}

RECURSIVE trimStart(_)
trimStart(s) ==
  IF s # <<>> /\ IsWhitespace(Head(s)) THEN trimStart(Tail(s)) ELSE s

RECURSIVE trimEnd(_)
trimEnd(s) ==
  IF s # <<>> /\ IsWhitespace(s[Len(s)])
  THEN trimEnd(SubSeq(s, 1, Len(s) - 1))
  ELSE s

trim(s) == trimEnd(trimStart(s))

\* `nlp:${input.toLowerCase().trim()}`
cacheKey(input) == <<"nlp:">> \o trim(toLowerCase(input))

\* ------------------------------------------------------ intent classifier
\* A phrase (sequence of tokens) occurs in s starting at token i.
PhraseAt(s, i, p) ==
  /\ i + Len(p) - 1 <= Len(s)
  /\ \A k \in 1..Len(p) : s[i + k - 1] = p[k]

\* /\b(A)\b/ : some alternative of A occurs.
MatchesOne(s, A) == \E p \in A : \E i \in 1..Len(s) : PhraseAt(s, i, p)

\* /\b(A)\b.*\b(B)\b/ : an alternative of A, later an alternative of B.
MatchesTwo(s, A, B) ==
  \E p \in A : \E i \in 1..Len(s) :
    /\ PhraseAt(s, i, p)
    /\ \E q \in B : \E j \in (i + Len(p))..Len(s) : PhraseAt(s, j, q)

EventNouns == { <<"event">>, <<"meeting">>, <<"appointment">> }

intentPatterns ==
  << [a |-> { <<"add">>, <<"invite">> },
      b |-> { <<"to">>, <<"attendee">>, <<"participant">> },
      intent |-> "ADD_ATTENDEE"],
     [a |-> { <<"schedule">>, <<"create">>, <<"add">>, <<"new">>,
              <<"set", " ", "up">> },
      b |-> EventNouns, intent |-> "CREATE_EVENT"],
     [a |-> { <<"update">>, <<"change">>, <<"modify">>, <<"reschedule">>,
              <<"move">> },
      b |-> EventNouns, intent |-> "UPDATE_EVENT"],
     [a |-> { <<"delete">>, <<"cancel">>, <<"remove">> },
      b |-> EventNouns, intent |-> "DELETE_EVENT"],
     [a |-> { <<"list">>, <<"show">>, <<"what", "'", "s">>,
              <<"what", " ", "is">> },
      b |-> { <<"calendar">>, <<"schedule">>, <<"events">>,
              <<"appointments">> },
      intent |-> "LIST_EVENTS"],
     [a |-> { <<"when">>, <<"what", " ", "time">> },
      b |-> EventNouns, intent |-> "QUERY_SCHEDULE"],
     [a |-> { <<"add">>, <<"create">>, <<"new">> },
      b |-> { <<"contact">>, <<"person">> }, intent |-> "ADD_CONTACT"],
     [a |-> { <<"find">>, <<"search">>, <<"lookup">>, <<"who">> },
      b |-> { <<"contact">>, <<"person">>, <<"email">>, <<"phone">> },
      intent |-> "QUERY_CONTACT"],
     [a |-> { <<"remind">>, <<"reminder">>, <<"alert">> },
      b |-> {}, intent |-> "SET_REMINDER"],
     [a |-> { <<"find", " ", "time">>, <<"find", " ", "slot">>,
              <<"available">>, <<"free", " ", "time">> },
      b |-> {}, intent |-> "FIND_TIME"],
     [a |-> { <<"conflict">>, <<"conflicts">>, <<"overlapping">>,
              <<"doublebooked">>, <<"double", " ", "booked">>,
              <<"double", "-", "booked">> },
      b |-> {}, intent |-> "CHECK_CONFLICTS"],
     [a |-> { <<"create">>, <<"schedule">>, <<"add">>, <<"new">>,
              <<"set", " ", "up">> },
      b |-> { <<"every">>, <<"daily">>, <<"weekly">>, <<"monthly">>,
              <<"yearly">>, <<"recurring">> },
      intent |-> "CREATE_EVENT"] >>

PatternTest(pat, s) ==
  IF pat.b = {} THEN MatchesOne(s, pat.a) ELSE MatchesTwo(s, pat.a, pat.b)

\* detectIntent returning the intent of the last pattern that matches
detectIntentLast(s) ==
  LET hits == { n \in 1..Len(intentPatterns) : PatternTest(intentPatterns[n], s) }
  IN  IF hits = {} THEN "UNKNOWN"
      ELSE intentPatterns[CHOOSE n \in hits : \A m \in hits : n >= m].intent

\* for (const [pattern, intent] of intentPatterns) if (pattern.test(input))
detectIntent(s) ==
  LET hits == { n \in 1..Len(intentPatterns) : PatternTest(intentPatterns[n], s) }
  IN  IF hits = {} THEN "UNKNOWN"
      ELSE intentPatterns[CHOOSE n \in hits : \A m \in hits : n <= m].intent

\* --------------------------------------------------- local fallback parser
\* fallbackParse with the confidence test inverted
fallbackParseInverted(input) ==
  LET lowerInput == trim(toLowerCase(input))
      intent == detectIntent(lowerInput)
  IN  [ intent |-> intent,
        confidence |-> IF intent = "UNKNOWN" THEN LocalConfidenceMatch
                                            ELSE LocalConfidenceUnknown,
        originalText |-> input ]

fallbackParse(input) ==
  LET lowerInput == trim(toLowerCase(input))
      intent == detectIntent(lowerInput)
  IN  [ intent |-> intent,
        confidence |-> IF intent # "UNKNOWN" THEN LocalConfidenceMatch
                                            ELSE LocalConfidenceUnknown,
        originalText |-> input ]

\* ------------------------------------------------- remote reply validation
\* validateAndTransformAIResponse taking the reply's intent as it is
validateUnchecked(aiResponse, originalText) ==
  [ intent |-> aiResponse.intent,
    confidence |-> IF aiResponse.confidence = -1 \/ aiResponse.confidence = 0
                   THEN DefaultAIConfidence ELSE aiResponse.confidence,
    originalText |-> originalText ]

\* A reply is the JSON object the model sent: intent "" means the field is
\* missing, confidence -1 means the field is missing.
validateAndTransformAIResponse(aiResponse, originalText) ==
  [ intent |-> IF aiResponse.intent # "" /\ aiResponse.intent \in CommandIntent
               THEN aiResponse.intent ELSE "UNKNOWN",
    confidence |-> IF aiResponse.confidence = -1 \/ aiResponse.confidence = 0
                   THEN DefaultAIConfidence ELSE aiResponse.confidence,
    originalText |-> originalText ]

\* ------------------------------------------------------------ MemoryCache
\* the expiry test with the comparison inclusive
CacheExpiredAtTtl(entry, t) == t >= entry.timestamp + entry.ttl

\* now > entry.timestamp + entry.ttl
CacheExpired(entry, t) == t > entry.timestamp + entry.ttl

\* MemoryCache.get: the value it returns (undefined is NoEntry).
NoEntry == [intent |-> "", confidence |-> -1, originalText |-> <<>>]

CacheGetValue(ch, key, t) ==
  IF key \in DOMAIN ch /\ ~CacheExpired(ch[key], t) THEN ch[key].data
  ELSE NoEntry

\* MemoryCache.get deleting the entry on every lookup that finds one
CacheGetEffectAlways(ch, key, t) ==
  IF key \in DOMAIN ch
  THEN [k \in DOMAIN ch \ {key} |-> ch[k]]
  ELSE ch

\* MemoryCache.get: the map it leaves (an expired entry is deleted).
CacheGetEffect(ch, key, t) ==
  IF key \in DOMAIN ch /\ CacheExpired(ch[key], t)
  THEN [k \in DOMAIN ch \ {key} |-> ch[k]]
  ELSE ch

\* MemoryCache.set leaving an entry that is already there
CacheSetKeepingEntry(ch, key, value, ttl, t) ==
  LET ttlMs == (IF ttl # 0 THEN ttl ELSE ConfigCacheTtl) * 1000
  IN  [k \in DOMAIN ch \cup {key} |->
         IF k = key /\ k \notin DOMAIN ch
         THEN [data |-> value, timestamp |-> t, ttl |-> ttlMs]
         ELSE ch[k]]

\* MemoryCache.set
CacheSet(ch, key, value, ttl, t) ==
  LET ttlMs == (IF ttl # 0 THEN ttl ELSE ConfigCacheTtl) * 1000
  IN  [k \in DOMAIN ch \cup {key} |->
         IF k = key THEN [data |-> value, timestamp |-> t, ttl |-> ttlMs]
         ELSE ch[k]]

\* MemoryCache.delete
CacheDelete(ch, key) == [k \in DOMAIN ch \ {key} |-> ch[k]]

\* MemoryCache.cleanup
CacheCleanup(ch, t) ==
  [k \in {x \in DOMAIN ch : ~CacheExpired(ch[x], t)} |-> ch[k]]

\* ------------------------------------------------------------- retry-after
Digits == <<"0", "1", "2", "3", "4", "5", "6", "7", "8", "9">>
IsDigit(ch) == \E d \in 1..10 : Digits[d] = ch
DigitValue(ch) == (CHOOSE d \in 1..10 : Digits[d] = ch) - 1

RECURSIVE leadingDigits(_, _, _)
\* Reads the longest run of digits at the head of s: [nan, val].
leadingDigits(s, acc, seen) ==
  IF s # <<>> /\ IsDigit(Head(s))
  THEN leadingDigits(Tail(s), acc * 10 + DigitValue(Head(s)), TRUE)
  ELSE [nan |-> ~seen, val |-> acc]

\* parseInt(text): leading whitespace skipped, optional sign, decimal
\* digits up to the first other character; NaN when there is no digit.
\* A header that is absent is parseInt(undefined), which is NaN.
parseInt(h) ==
  IF ~h.present THEN [nan |-> TRUE, val |-> 0]
  ELSE LET t == trimStart(h.text)
           neg == t # <<>> /\ Head(t) = "-"
           body == IF t # <<>> /\ Head(t) \in {"-", "+"} THEN Tail(t) ELSE t
           r == leadingDigits(body, 0, FALSE)
       IN  [nan |-> r.nan, val |-> IF neg THEN 0 - r.val ELSE r.val]

\* (parseInt(retryAfter) || 60)
retryAfterSeconds(h) ==
  LET p == parseInt(h)
  IN  IF p.nan \/ p.val = 0 THEN DefaultRetryAfter ELSE p.val

\* this.rateLimitReset = Date.now() + (parseInt(retryAfter) || 60) * 1000
rateLimitResetAfter429(h, t) == t + retryAfterSeconds(h) * 1000

\* ---------------------------------------------------------- remote outcomes
NoHeader == [present |-> FALSE, text |-> <<>>]
Header(txt) == [present |-> TRUE, text |-> txt]
NoReply == [intent |-> "", confidence |-> -1]

HttpOutcome(status, h) ==
  [kind |-> "http", status |-> status, retryAfter |-> h, reply |-> NoReply]
PlainOutcome(kind) ==
  [kind |-> kind, status |-> 0, retryAfter |-> NoHeader, reply |-> NoReply]
OkOutcome(reply) ==
  [kind |-> "ok", status |-> 200, retryAfter |-> NoHeader, reply |-> reply]

\* retry-after header values a 429 may carry
RetryAfterHeaders ==
  { NoHeader, Header(<<"0">>), Header(<<"1", "2", "0">>),
    Header(<<"s", "o", "o", "n">>) }

\* well-formed JSON objects the model may send
Replies ==
  { [intent |-> "LIST_EVENTS", confidence |-> 95],
    [intent |-> "schedule_it", confidence |-> -1],
    [intent |-> "", confidence |-> 150] }

ClientErrorOutcomes == { HttpOutcome(st, NoHeader) : st \in {400, 499} }
RateLimitOutcomes == { HttpOutcome(429, h) : h \in RetryAfterHeaders }
ServerErrorOutcomes == { HttpOutcome(st, NoHeader) : st \in {500} }
\* network: no response (connection error, or the 10 s timeout fired);
\* empty: no content in the first choice; badjson: JSON.parse threw;
\* nullreply: the JSON value null, on which validateAndTransformAIResponse
\* throws a TypeError.
OtherFailureOutcomes ==
  { PlainOutcome(k) : k \in {"network", "empty", "badjson", "nullreply"} }
SuccessOutcomes == { OkOutcome(r) : r \in Replies }

Outcomes ==
  ClientErrorOutcomes \cup RateLimitOutcomes \cup ServerErrorOutcomes
    \cup OtherFailureOutcomes \cup SuccessOutcomes

\* axiosError.response?.status === 429
IsRateLimited(o) == o.kind = "http" /\ o.status = 429

\* the client-error test with its lower bound exclusive
IsNonRetryableAbove400(o) ==
  o.kind = "http" /\ o.status > 400 /\ o.status < 500 /\ o.status # 429

\* status >= 400 && status < 500 && status !== 429 : thrown at once
IsNonRetryable(o) ==
  o.kind = "http" /\ o.status >= 400 /\ o.status < 500 /\ o.status # 429

\* the retry test stopping one attempt early
MayRetryOneLess(att) == att < maxRetries - 1

\* if (attempt < this.maxRetries) retry else throw
MayRetry(att) == att < maxRetries

\* the loop condition with "<" for "<="
LoopContinuesBelow(att) == att < maxRetries

\* for (...; attempt <= this.maxRetries; ...)
LoopContinues(att) == att <= maxRetries

\* the cool-down test with the comparison reversed
InCooldownReversed(reset, t) == reset < t

\* this.rateLimitReset > Date.now()
InCooldown(reset, t) == reset > t

\* --------------------------------------------------------------- calendar
\* A Date is [day, ms]: the local calendar day, counted from 2024-01-01 (a
\* Monday), and the milliseconds since local midnight.  The local time zone
\* has no daylight-saving transitions.  Months are 0..11 and weekdays 0..6
\* (Sunday is 0) as in Date.prototype.
MsPerDay == 86400000
MsPerHour == 3600000
MsPerMinute == 60000

\* The value of the one element of a singleton set.
TheOne(S) == CHOOSE v \in S : TRUE

\* null (getNextOccurrence), undefined (an absent Date field)
Null == [day |-> 0, ms |-> -1]

\* a < b and a <= b on Dates (comparison of getTime())
Before(a, b) == a.day < b.day \/ (a.day = b.day /\ a.ms < b.ms)
NotAfter(a, b) == ~Before(b, a)

\* day number of 1970-01-01, a Thursday
UnixEpochDay == 0 - 19723

\* Proleptic Gregorian calendar by eras of 400 years (146097 days), the
\* year running from March 1st.  yoe: year of the era, doe: day of the
\* era, doy: day of the year, mp: month counted from March.
DaysBeforeYearOfEra(yoe) == yoe * 365 + (yoe \div 4) - (yoe \div 100)

DayOfShifted(yy, mp) ==
  (yy \div 400) * 146097 + DaysBeforeYearOfEra(yy % 400)
    + ((153 * mp + 2) \div 5) - 719468 + UnixEpochDay

\* day number of the 1st of month m (0..11) of year y
DayOfMonthStart(y, m) ==
  DayOfShifted(IF m <= 1 THEN y - 1 ELSE y, IF m > 1 THEN m - 2 ELSE m + 10)

\* new Date(year, month, date): month and date out of range roll over
DayOfCivil(y, m, d) == DayOfMonthStart(y + (m \div 12), m % 12) + d - 1

CivilOfParts(era, yoe, doy, mp) ==
  [ year |-> yoe + era * 400 + (IF mp >= 10 THEN 1 ELSE 0),
    month |-> IF mp < 10 THEN mp + 2 ELSE mp - 10,
    date |-> doy - ((153 * mp + 2) \div 5) + 1 ]

CivilOfDayOfYear(era, yoe, doy) ==
  CivilOfParts(era, yoe, doy, (5 * doy + 2) \div 153)

CivilOfYearOfEra(era, doe, yoe) ==
  CivilOfDayOfYear(era, yoe, doe - DaysBeforeYearOfEra(yoe))

CivilOfDayOfEra(era, doe) ==
  CivilOfYearOfEra(era, doe,
    (doe - (doe \div 1460) + (doe \div 36524) - (doe \div 146096)) \div 365)

\* year, month (0..11) and day of the month of a day number
Civil(day) ==
  CivilOfDayOfEra((day - UnixEpochDay + 719468) \div 146097,
                  (day - UnixEpochDay + 719468) % 146097)

getFullYear(x) == Civil(x.day).year
getMonth(x) == Civil(x.day).month
getDate(x) == Civil(x.day).date
getDay(x) == (x.day + 1) % 7
getHours(x) == x.ms \div MsPerHour
getMinutes(x) == (x.ms % MsPerHour) \div MsPerMinute

\* the Date total ms after the midnight that starts day
DateOfDayAndMs(day, total) ==
  [day |-> day + (total \div MsPerDay), ms |-> total % MsPerDay]

\* Date.prototype.setHours(h, min, s, ms), setHours(h), setMinutes(min)
setHours4(x, h, mi, sec, msec) ==
  DateOfDayAndMs(x.day, h * MsPerHour + mi * MsPerMinute + sec * 1000 + msec)
setHours(x, h) == DateOfDayAndMs(x.day, x.ms + (h - getHours(x)) * MsPerHour)
setMinutes(x, mi) ==
  DateOfDayAndMs(x.day, x.ms + (mi - getMinutes(x)) * MsPerMinute)

\* the Date of the civil date c with one field replaced
WithDate(c, d, ms) == [day |-> DayOfCivil(c.year, c.month, d), ms |-> ms]
WithMonth(c, m, ms) == [day |-> DayOfCivil(c.year, m, c.date), ms |-> ms]
WithFullYear(c, y, ms) == [day |-> DayOfCivil(y, c.month, c.date), ms |-> ms]

\* setDate, setMonth, setFullYear
setDate(x, d) == WithDate(Civil(x.day), d, x.ms)
setMonth(x, m) == WithMonth(Civil(x.day), m, x.ms)
setFullYear(x, y) == WithFullYear(Civil(x.day), y, x.ms)

\* dateHelpers.addTime
addTime(date, amount, unit) ==
  CASE unit = "minutes" -> setMinutes(date, getMinutes(date) + amount)
    [] unit = "hours"   -> setHours(date, getHours(date) + amount)
    [] unit = "days"    -> setDate(date, getDate(date) + amount)
    [] unit = "weeks"   -> setDate(date, getDate(date) + amount * 7)
    [] unit = "months"  -> setMonth(date, getMonth(date) + amount)
    [] unit = "years"   -> setFullYear(date, getFullYear(date) + amount)

\* -------------------------------------------------------------- recurrence
\* A RecurringPattern: interval, dayOfMonth and occurrences are 0 when the
\* field is absent (the code tests them for truthiness), daysOfWeek is <<>>
\* and endDate is Null when absent.
RecurrenceFrequency == {"DAILY", "WEEKLY", "MONTHLY", "YEARLY"}

PatternOf(frequency, interval, daysOfWeek, dayOfMonth, endDate, occurrences) ==
  [ frequency |-> frequency, interval |-> interval,
    daysOfWeek |-> daysOfWeek, dayOfMonth |-> dayOfMonth,
    endDate |-> endDate, occurrences |-> occurrences ]

Includes(arr, v) == \E k \in 1..Len(arr) : arr[k] = v

\* pattern.interval || 1
IntervalOrOne(pattern) == IF pattern.interval # 0 THEN pattern.interval ELSE 1

\* the weekday scan starting at the current day itself
ScanOffsetsFromToday == 0..7

\* for (let i = 1; i <= 7; i++)
ScanOffsets == 1..7

\* The offsets of the weekday scan that land on a day of daysOfWeek.
WeekdayHits(current, daysOfWeek) ==
  { i \in ScanOffsets : Includes(daysOfWeek, getDay(addTime(current, i, "days"))) }

Least(S) == CHOOSE i \in S : \A j \in S : i <= j

\* the weekday scan: found is FALSE when it ends without a hit
ScanResult(current, hits) ==
  IF hits = {}
  THEN [found |-> FALSE, current |-> addTime(current, 7, "days")]
  ELSE [found |-> TRUE, current |-> addTime(current, Least(hits), "days")]

\* The switch of getNextOccurrence: the next candidate after current.
AdvanceCurrent(current, pattern) ==
  CASE pattern.frequency = "DAILY" ->
         [found |-> TRUE,
          current |-> addTime(current, IntervalOrOne(pattern), "days")]
    [] pattern.frequency = "WEEKLY" ->
         IF Len(pattern.daysOfWeek) > 0
         THEN ScanResult(current, WeekdayHits(current, pattern.daysOfWeek))
         ELSE [found |-> TRUE,
               current |-> addTime(current, IntervalOrOne(pattern) * 7, "days")]
    [] pattern.frequency = "MONTHLY" ->
         IF pattern.dayOfMonth # 0
         THEN [found |-> TRUE,
               current |-> setDate(setMonth(current, getMonth(current)
                                                       + IntervalOrOne(pattern)),
                                   pattern.dayOfMonth)]
         ELSE [found |-> TRUE,
               current |-> addTime(current, IntervalOrOne(pattern), "months")]
    [] pattern.frequency = "YEARLY" ->
         [found |-> TRUE,
          current |-> addTime(current, IntervalOrOne(pattern), "years")]
    [] OTHER -> [found |-> TRUE, current |-> current]

\* occurrenceCount++: a JavaScript number stops growing at 2^53.  The code
\* compares the count with 0 and with pattern.occurrences only, so every
\* count above the largest pattern.occurrences in use is read alike, and
\* the count stops at CountLimit.
CountLimit == MaxOccurrences + 1
Increment(occurrenceCount) ==
  IF occurrenceCount >= CountLimit THEN occurrenceCount ELSE occurrenceCount + 1

\* What a pass of the loop does once the switch has moved current to
\* adv.current.
AfterAdvance(adv, occurrenceCount, pattern, afterDate) ==
  IF ~adv.found
  THEN [returns |-> TRUE, value |-> Null, current |-> adv.current,
        occurrenceCount |-> occurrenceCount]
  ELSE IF pattern.endDate # Null /\ Before(pattern.endDate, adv.current)
  THEN [returns |-> TRUE, value |-> Null, current |-> adv.current,
        occurrenceCount |-> Increment(occurrenceCount)]
  ELSE IF Before(afterDate, adv.current)
  THEN [returns |-> TRUE, value |-> adv.current, current |-> adv.current,
        occurrenceCount |-> Increment(occurrenceCount)]
  ELSE [returns |-> FALSE, value |-> Null, current |-> adv.current,
        occurrenceCount |-> Increment(occurrenceCount)]

\* One pass of getNextOccurrence's while loop from (current,
\* occurrenceCount): it returns a value, or goes round again.
NextOccurrencePass(current, occurrenceCount, pattern, afterDate) ==
  IF ~(NotAfter(current, afterDate) \/ occurrenceCount = 0)
  THEN [returns |-> TRUE, value |-> Null, current |-> current,
        occurrenceCount |-> occurrenceCount]
  ELSE IF pattern.occurrences # 0 /\ occurrenceCount >= pattern.occurrences
  THEN [returns |-> TRUE, value |-> Null, current |-> current,
        occurrenceCount |-> occurrenceCount]
  ELSE TheOne({ AfterAdvance(adv, occurrenceCount, pattern, afterDate) :
                adv \in { AdvanceCurrent(current, pattern) } })

\* getNextOccurrence from its entry to its while loop: it returns null at
\* once, or enters the loop with current = startDate, occurrenceCount = 0.
EnterNextOccurrence(startDate, pattern, afterDate) ==
  [ returns |-> pattern.endDate # Null /\ Before(pattern.endDate, afterDate),
    value |-> Null, current |-> startDate, occurrenceCount |-> 0 ]

\* Where a library call stands.  at: idle, self (getNextOccurrence's loop),
\* first and next (getOccurrencesInRange waiting for the getNextOccurrence
\* it called before and inside its loop); afterDate and inner: the
\* threshold and the loop variables of the getNextOccurrence in progress;
\* current, occurrenceCount, occurrences: getOccurrencesInRange's locals.
FrameOf(at, afterDate, entered, current, occurrenceCount, occurrences) ==
  [ at |-> at, afterDate |-> afterDate,
    inner |-> [ current |-> entered.current,
                occurrenceCount |-> entered.occurrenceCount ],
    current |-> current, occurrenceCount |-> occurrenceCount,
    occurrences |-> occurrences ]

Idle ==
  FrameOf("idle", Null, [current |-> Null, occurrenceCount |-> 0], Null, 0, <<>>)

\* getOccurrencesInRange returns occurrences / goes on in frame
Returns(occurrences) == [returns |-> TRUE, value |-> occurrences, frame |-> Idle]
GoesOn(frame) == [returns |-> FALSE, value |-> <<>>, frame |-> frame]

\* the range test looking at the upper end only
InRangeUpperOnly(current, rangeStart, rangeEnd) == NotAfter(current, rangeEnd)

\* current >= rangeStart && current <= rangeEnd
InRange(current, rangeStart, rangeEnd) ==
  NotAfter(rangeStart, current) /\ NotAfter(current, rangeEnd)

\* const next = getNextOccurrence(current, pattern, current), entered: a
\* call that returns at once returns null, and the loop breaks.
AwaitNext(current, occurrenceCount, occurrences, entered) ==
  IF entered.returns THEN Returns(occurrences)
  ELSE GoesOn(FrameOf("next", current, entered, current, occurrenceCount,
                      occurrences))

\* getOccurrencesInRange's while loop from its head to the call of
\* getNextOccurrence
OccurrencesLoopHead(current, occurrenceCount, occurrences, pattern, rangeStart, rangeEnd) ==
  IF ~NotAfter(current, rangeEnd) THEN Returns(occurrences)
  ELSE IF pattern.occurrences # 0 /\ occurrenceCount >= pattern.occurrences
  THEN Returns(occurrences)
  ELSE IF pattern.endDate # Null /\ Before(pattern.endDate, current)
  THEN Returns(occurrences)
  ELSE AwaitNext(current, occurrenceCount,
                 IF InRange(current, rangeStart, rangeEnd)
                 THEN Append(occurrences, current) ELSE occurrences,
                 EnterNextOccurrence(current, pattern, current))

\* the loop once getNextOccurrence has returned next
OccurrencesAfterNext(frame, next, pattern, rangeStart, rangeEnd) ==
  IF next = Null \/ NotAfter(next, frame.current)
  THEN Returns(frame.occurrences)
  ELSE OccurrencesLoopHead(next, frame.occurrenceCount + 1, frame.occurrences,
                           pattern, rangeStart, rangeEnd)

\* current = getNextOccurrence(startDate, pattern, rangeStart) || current,
\* once the call has returned first
OccurrencesAfterFirst(startDate, first, pattern, rangeStart, rangeEnd) ==
  OccurrencesLoopHead(IF first # Null THEN first ELSE startDate, 0, <<>>,
                      pattern, rangeStart, rangeEnd)

AwaitFirst(startDate, entered, pattern, rangeStart, rangeEnd) ==
  IF entered.returns
  THEN OccurrencesAfterFirst(startDate, entered.value, pattern, rangeStart,
                             rangeEnd)
  ELSE GoesOn(FrameOf("first", rangeStart, entered, startDate, 0, <<>>))

\* getOccurrencesInRange from its entry to its first call of
\* getNextOccurrence
OccurrencesStart(startDate, pattern, rangeStart, rangeEnd) ==
  IF Before(rangeEnd, startDate) THEN Returns(<<>>)
  ELSE IF pattern.endDate # Null /\ Before(pattern.endDate, rangeStart)
  THEN Returns(<<>>)
  ELSE IF Before(startDate, rangeStart)
  THEN AwaitFirst(startDate,
                  EnterNextOccurrence(startDate, pattern, rangeStart),
                  pattern, rangeStart, rangeEnd)
  ELSE OccurrencesLoopHead(startDate, 0, <<>>, pattern, rangeStart, rangeEnd)

\* ----------------------------------------------------- tokens and numbers
Punctuation == {",", ".", ":", "'", "-", "/", "?", "!"}
IsLetters(t) == ~IsWhitespace(t) /\ ~IsDigit(t) /\ t \notin Punctuation

\* s[k] is a word character (\w): a letter or a digit
WordAt(s, k) == k \in 1..Len(s) /\ (IsDigit(s[k]) \/ IsLetters(s[k]))

\* \b right before and right after the word token s[i]
StartsAt(s, i) == ~WordAt(s, i - 1)
EndsAt(s, i) == ~WordAt(s, i + 1)

\* the token at k lower-cased (the /i flag), "" off the text
LowerAt(s, k) == IF k \in 1..Len(s) THEN LowerToken(s[k]) ELSE ""

\* \bw\b for a word w of W, at i
WordIn(s, i, W) == LowerAt(s, i) \in W /\ StartsAt(s, i) /\ EndsAt(s, i)

\* \s* and \d* from i: the index of the first token they do not take
SkipSpaces(s, i) ==
  Least({ k \in i..(Len(s) + 1) : k > Len(s) \/ ~IsWhitespace(s[k]) })
SkipDigits(s, i) ==
  Least({ k \in i..(Len(s) + 1) : k > Len(s) \/ ~IsDigit(s[k]) })

\* parseInt of the digits s[i..j-1]
NumberAt(s, i, j) == leadingDigits(SubSeq(s, i, j - 1), 0, FALSE).val

\* \bw\s+ for a word w of W, at i: the index after the blanks, 0 if no match
AfterWord(s, i, W) ==
  IF WordIn(s, i, W) /\ SkipSpaces(s, i + 1) > i + 1
  THEN SkipSpaces(s, i + 1) ELSE 0

\* ---------------------------------------------------------- extractDateTime
AmPm == {"am", "pm"}
dayNames ==
  <<"sunday", "monday", "tuesday", "wednesday", "thursday", "friday",
    "saturday">>
DayNameSet == { dayNames[k] : k \in 1..7 }

\* dayNames.indexOf(name)
DayIndex(name) == (CHOOSE k \in 1..7 : dayNames[k] = name) - 1

\* A match of a time pattern: minutes is -1 and period is "" when the
\* group did not take part in the match.
TimeOfDay(found, hours, minutes, period) ==
  [found |-> found, hours |-> hours, minutes |-> minutes, period |-> period]
NoTime == TimeOfDay(FALSE, 0, 0 - 1, "")

\* (am|pm)\b at k
PeriodAt(s, k) == LowerAt(s, k) \in AmPm /\ EndsAt(s, k)

\* (\d{1,2})(?::(\d{2}))?\s*(am|pm)\b with the hour's digits s[j..j2-1]
HourMinutePeriod(s, j, j2, withMinutes) ==
  IF /\ (j2 - j) \in 1..2
     /\ PeriodAt(s, SkipSpaces(s, IF withMinutes THEN j2 + 3 ELSE j2))
  THEN TimeOfDay(TRUE, NumberAt(s, j, j2),
                 IF withMinutes THEN NumberAt(s, j2 + 1, j2 + 3) ELSE 0 - 1,
                 LowerAt(s, SkipSpaces(s, IF withMinutes THEN j2 + 3 ELSE j2)))
  ELSE NoTime

\* :(\d{2}) at j2, the two digits followed by no third
MinutesAt(s, j2) == LowerAt(s, j2) = ":" /\ SkipDigits(s, j2 + 1) = j2 + 3

\* /\bat\s+(\d{1,2})(?::(\d{2}))?\s*(am|pm)\b/i matched from the word at i,
\* the hour's digits starting at j
AtHourFrom(s, j) ==
  IF j = 0 THEN NoTime
  ELSE HourMinutePeriod(s, j, SkipDigits(s, j), MinutesAt(s, SkipDigits(s, j)))

AtHour(s, i) == AtHourFrom(s, AfterWord(s, i, {"at"}))

\* /\b(\d{1,2}):(\d{2})\s*(am|pm)?\b/i matched from the digit at i, whose
\* run ends before j2
ClockFrom(s, i, j2) ==
  IF ~( /\ (j2 - i) \in 1..2
        /\ LowerAt(s, j2) = ":"
        /\ SkipDigits(s, j2 + 1) >= j2 + 3 )
  THEN NoTime
  ELSE IF PeriodAt(s, SkipSpaces(s, j2 + 3))
  THEN TimeOfDay(TRUE, NumberAt(s, i, j2), NumberAt(s, j2 + 1, j2 + 3),
                 LowerAt(s, SkipSpaces(s, j2 + 3)))
  ELSE IF ~WordAt(s, j2 + 3)
  THEN TimeOfDay(TRUE, NumberAt(s, i, j2), NumberAt(s, j2 + 1, j2 + 3), "")
  ELSE NoTime

Clock(s, i) ==
  IF i \in 1..Len(s) /\ IsDigit(s[i]) /\ StartsAt(s, i)
  THEN ClockFrom(s, i, SkipDigits(s, i)) ELSE NoTime

\* /\b(\d{1,2})\s*(am|pm)\b/i matched from the digit at i
HourPeriod(s, i) ==
  IF i \in 1..Len(s) /\ IsDigit(s[i]) /\ StartsAt(s, i)
  THEN HourMinutePeriod(s, i, SkipDigits(s, i), FALSE) ELSE NoTime

\* timePatterns[n] matched from position i
timePatterns(n, s, i) ==
  CASE n = 1 -> AtHour(s, i)
    [] n = 2 -> Clock(s, i)
    [] n = 3 -> HourPeriod(s, i)

\* text.match(timePatterns[n]): the leftmost match
MatchTime(n, s) ==
  IF \E i \in 1..Len(s) : timePatterns(n, s, i).found
  THEN timePatterns(n, s, Least({ i \in 1..Len(s) : timePatterns(n, s, i).found }))
  ELSE NoTime

\* the first pattern of timePatterns that matches
FirstTime(s) ==
  IF MatchTime(1, s).found THEN MatchTime(1, s)
  ELSE IF MatchTime(2, s).found THEN MatchTime(2, s)
  ELSE MatchTime(3, s)

\* hours after the period's adjustment
HoursOf(m) ==
  IF m.period = "pm" /\ m.hours < 12 THEN m.hours + 12
  ELSE IF m.period = "am" /\ m.hours = 12 THEN 0
  ELSE m.hours

MinutesOf(m) == IF m.minutes >= 0 THEN m.minutes ELSE 0

\* A base date: same tells that it is the object now itself.
BaseDate(found, value, same) == [found |-> found, value |-> value, same |-> same]
NoBase(now) == BaseDate(FALSE, now, TRUE)

\* NextWeekday with the offset 0 kept ("< 0" for "<= 0")
NextWeekdayOrToday(s, k, now) ==
  IF k # 0 /\ LowerAt(s, k) \in DayNameSet /\ EndsAt(s, k)
  THEN BaseDate(TRUE,
         addTime(now,
                 IF DayIndex(LowerAt(s, k)) - getDay(now) < 0
                 THEN DayIndex(LowerAt(s, k)) - getDay(now) + 7
                 ELSE DayIndex(LowerAt(s, k)) - getDay(now),
                 "days"),
         FALSE)
  ELSE NoBase(now)

\* \bnext\s+(monday|...|sunday)\b from the word at i, the name at k
NextWeekday(s, k, now) ==
  IF k # 0 /\ LowerAt(s, k) \in DayNameSet /\ EndsAt(s, k)
  THEN BaseDate(TRUE,
         addTime(now,
                 IF DayIndex(LowerAt(s, k)) - getDay(now) <= 0
                 THEN DayIndex(LowerAt(s, k)) - getDay(now) + 7
                 ELSE DayIndex(LowerAt(s, k)) - getDay(now),
                 "days"),
         FALSE)
  ELSE NoBase(now)

\* \bnext\s+w\b, w a word of W, from the word at i
NextFollowedBy(s, i, W) ==
  /\ AfterWord(s, i, {"next"}) # 0
  /\ LowerAt(s, AfterWord(s, i, {"next"})) \in W
  /\ EndsAt(s, AfterWord(s, i, {"next"}))

\* \bin\s+(\d+)\s+(u)\b, u a word of Units, the digits starting at j
InAmountFrom(s, j, j2, Units, unit, now) ==
  IF /\ j # 0 /\ j2 > j
     /\ SkipSpaces(s, j2) > j2
     /\ LowerAt(s, SkipSpaces(s, j2)) \in Units
     /\ EndsAt(s, SkipSpaces(s, j2))
  THEN BaseDate(TRUE, addTime(now, NumberAt(s, j, j2), unit), FALSE)
  ELSE NoBase(now)

InAmount(s, i, Units, unit, now) ==
  InAmountFrom(s, AfterWord(s, i, {"in"}),
               SkipDigits(s, AfterWord(s, i, {"in"})), Units, unit, now)

\* new Date(year, month, day): years 0..99 are 1900..1999
NewDate(year, month, day) ==
  [ day |-> DayOfCivil(IF year \in 0..99 THEN 1900 + year ELSE year, month, day),
    ms |-> 0 ]

\* (?:\/(\d{2,4}))?\b after the day's digits: the year's digits are
\* s[y..y2-1]; the group takes part when they are 2 to 4 and a \b follows
YearTakesPart(s, y, y2) ==
  LowerAt(s, y - 1) = "/" /\ (y2 - y) \in 2..4 /\ ~WordAt(s, y2)

\* /\bon\s+(\d{1,2})\/(\d{1,2})(?:\/(\d{2,4}))?\b/i, the month's digits
\* s[j..j2-1] and the day's digits s[j2+1..d2-1]
OnDateFrom(s, j, j2, d2, now) ==
  IF /\ j # 0 /\ (j2 - j) \in 1..2
     /\ LowerAt(s, j2) = "/"
     /\ (d2 - (j2 + 1)) \in 1..2
     /\ (~WordAt(s, d2) \/ YearTakesPart(s, d2 + 1, SkipDigits(s, d2 + 1)))
  THEN BaseDate(TRUE,
         NewDate(IF YearTakesPart(s, d2 + 1, SkipDigits(s, d2 + 1))
                 THEN NumberAt(s, d2 + 1, SkipDigits(s, d2 + 1))
                 ELSE getFullYear(now),
                 NumberAt(s, j, j2) - 1,
                 NumberAt(s, j2 + 1, d2)),
         FALSE)
  ELSE NoBase(now)

OnDateDay(s, j, j2, now) == OnDateFrom(s, j, j2, SkipDigits(s, j2 + 1), now)

OnDate(s, i, now) ==
  OnDateDay(s, AfterWord(s, i, {"on"}), SkipDigits(s, AfterWord(s, i, {"on"})),
            now)

\* datePatterns[n] matched from position i, with its extractor applied
datePatterns(n, s, i, now) ==
  CASE n = 1 -> BaseDate(WordIn(s, i, {"tomorrow"}), addTime(now, 1, "days"), FALSE)
    [] n = 2 -> BaseDate(WordIn(s, i, {"today"}), now, TRUE)
    [] n = 3 -> BaseDate(WordIn(s, i, {"yesterday"}), addTime(now, 0 - 1, "days"), FALSE)
    [] n = 4 -> NextWeekday(s, AfterWord(s, i, {"next"}), now)
    [] n = 5 -> BaseDate(NextFollowedBy(s, i, {"week"}), addTime(now, 7, "days"), FALSE)
    [] n = 6 -> BaseDate(NextFollowedBy(s, i, {"month"}), addTime(now, 1, "months"), FALSE)
    [] n = 7 -> InAmount(s, i, {"hour", "hours"}, "hours", now)
    [] n = 8 -> InAmount(s, i, {"minute", "minutes"}, "minutes", now)
    [] n = 9 -> InAmount(s, i, {"day", "days"}, "days", now)
    [] n = 10 -> OnDate(s, i, now)

\* datePatterns[n] matches somewhere in the text
DateMatches(n, s, now) == \E i \in 1..Len(s) : datePatterns(n, s, i, now).found

\* the extractor of the first pattern of datePatterns that matches, on its
\* leftmost match; now itself when none matches
FirstDate(s, now) ==
  IF \E n \in 1..10 : DateMatches(n, s, now)
  THEN datePatterns(Least({ n \in 1..10 : DateMatches(n, s, now) }), s,
                    Least({ i \in 1..Len(s) :
                            datePatterns(Least({ n \in 1..10 :
                                                 DateMatches(n, s, now) }),
                                         s, i, now).found }),
                    now)
  ELSE NoBase(now)

\* Combine date and time: Null when dateTime is not set
CombineDateTime(time, base) ==
  IF time.found
  THEN setHours4(base.value, HoursOf(time), MinutesOf(time), 0, 0)
  ELSE IF ~base.same THEN base.value
  ELSE Null

\* A match of a duration pattern, in minutes
Duration(found, value) == [found |-> found, value |-> value]
NoDuration == Duration(FALSE, 0)

HourUnits == {"hour", "hours", "hr", "hrs"}
MinuteUnits == {"minute", "minutes", "min", "mins"}

\* /\b(\d+)-hour\b/i from the digit at i, whose run ends before j2
DashHour(s, i, j2) ==
  Duration(LowerAt(s, j2) = "-" /\ LowerAt(s, j2 + 1) = "hour" /\ EndsAt(s, j2 + 1),
           NumberAt(s, i, j2) * 60)

\* /\b(\d+)\s*(?:u)\b/i, u a word of Units
AmountOf(s, i, j2, Units, factor) ==
  Duration(LowerAt(s, SkipSpaces(s, j2)) \in Units /\ EndsAt(s, SkipSpaces(s, j2)),
           NumberAt(s, i, j2) * factor)

\* /\b(\d+\.?\d*)\s*(?:hour|hours|hr|hrs)\b/i where the pattern before it
\* does not match: digits, a point, the unit; parseFloat drops the point
PointHours(s, i, j2) ==
  Duration(/\ LowerAt(s, j2) = "."
           /\ LowerAt(s, SkipSpaces(s, j2 + 1)) \in HourUnits
           /\ EndsAt(s, SkipSpaces(s, j2 + 1)),
           NumberAt(s, i, j2) * 60)

durationPatternsFrom(n, s, i, j2) ==
  CASE n = 1 -> DashHour(s, i, j2)
    [] n = 2 -> AmountOf(s, i, j2, HourUnits, 60)
    [] n = 3 -> PointHours(s, i, j2)
    [] n = 4 -> AmountOf(s, i, j2, MinuteUnits, 1)

\* durationPatterns[n] matched from position i
durationPatterns(n, s, i) ==
  IF i \in 1..Len(s) /\ IsDigit(s[i]) /\ StartsAt(s, i)
  THEN durationPatternsFrom(n, s, i, SkipDigits(s, i))
  ELSE NoDuration

DurationMatches(n, s) == \E i \in 1..Len(s) : durationPatterns(n, s, i).found

FirstDuration(s) ==
  IF \E n \in 1..4 : DurationMatches(n, s)
  THEN durationPatterns(Least({ n \in 1..4 : DurationMatches(n, s) }), s,
                        Least({ i \in 1..Len(s) :
                                durationPatterns(Least({ n \in 1..4 :
                                                         DurationMatches(n, s) }),
                                                 s, i).found }))
  ELSE NoDuration

\* text.includes('meeting') || text.includes('appointment'): the letters
\* are within one token, in lower case
MentionsMeeting(s) ==
  \E i \in 1..Len(s) :
    s[i] \in {"meeting", "meetings", "appointment", "appointments"}

\* result.duration: 0 when not set (the code tests it for truthiness)
DurationOf(s, duration, dateTime) ==
  IF duration.found /\ duration.value # 0 THEN duration.value
  ELSE IF dateTime # Null /\ MentionsMeeting(s) THEN 60
  ELSE IF duration.found THEN duration.value
  ELSE 0

DateTimeResult(s, dateTime) ==
  [ dateTime |-> dateTime,
    duration |-> DurationOf(s, FirstDuration(s), dateTime) ]

\* NLPService.extractDateTime, with new Date() = now
extractDateTime(s, now) ==
  DateTimeResult(s, CombineDateTime(FirstTime(s), FirstDate(s, now)))

\* -------------------------------------------------------- extractAttendees
\* [A-Z][a-z]+ under the /i flag: two letters or more; the \b, \s or comma
\* that follows in every use makes it a whole run of letters
NameAt(s, k) ==
  k \in 1..Len(s) /\ IsLetters(s[k]) /\ Len(s[k]) >= 2 /\ EndsAt(s, k)

\* [A-Z][a-z]+(?:\s+[A-Z][a-z]+)? from j: the index after it, 0 if no match
FullNameEnd(s, j) ==
  IF ~NameAt(s, j) THEN 0
  ELSE IF SkipSpaces(s, j + 1) > j + 1 /\ NameAt(s, SkipSpaces(s, j + 1))
  THEN SkipSpaces(s, j + 1) + 1
  ELSE j + 1

\* the index after a comma and the blanks around it, from e; 0 if none
AfterComma(s, e) ==
  IF LowerAt(s, SkipSpaces(s, e)) = ","
  THEN SkipSpaces(s, SkipSpaces(s, e) + 1) ELSE 0

\* the index after \s+and\s+ from e; 0 if none
AfterAnd(s, e) ==
  IF /\ SkipSpaces(s, e) > e
     /\ LowerAt(s, SkipSpaces(s, e)) = "and"
     /\ SkipSpaces(s, SkipSpaces(s, e) + 1) > SkipSpaces(s, e) + 1
  THEN SkipSpaces(s, SkipSpaces(s, e) + 1) ELSE 0

RECURSIVE CommaNamesEnd(_, _)
\* (?:\s*,\s*[A-Z][a-z]+(?:\s+[A-Z][a-z]+)?)* from e: the index after it
CommaNamesEnd(s, e) ==
  IF AfterComma(s, e) # 0 /\ FullNameEnd(s, AfterComma(s, e)) # 0
  THEN CommaNamesEnd(s, FullNameEnd(s, AfterComma(s, e)))
  ELSE e

\* (?:\s+and\s+[A-Z][a-z]+(?:\s+[A-Z][a-z]+)?)? from e: the index after it
AndNameEnd(s, e) ==
  IF AfterAnd(s, e) # 0 /\ FullNameEnd(s, AfterAnd(s, e)) # 0
  THEN FullNameEnd(s, AfterAnd(s, e))
  ELSE e

\* withPattern matches from the word at i
WithAt(s, i) ==
  AfterWord(s, i, {"with"}) # 0 /\ NameAt(s, AfterWord(s, i, {"with"}))

\* withMatch[1], j being the index of its first token
WithCaptureFrom(s, j) ==
  SubSeq(s, j, AndNameEnd(s, CommaNamesEnd(s, FullNameEnd(s, j))) - 1)

\* the index after a separator of /\s*,\s*|\s+and\s+/i starting at p; 0 if
\* none starts there
SeparatorEnd(s, p) ==
  IF AfterComma(s, p) # 0 THEN AfterComma(s, p) ELSE AfterAnd(s, p)

RECURSIVE Split(_)
\* withMatch[1].split(/\s*,\s*|\s+and\s+/i)
Split(s) ==
  IF \E p \in 1..Len(s) : SeparatorEnd(s, p) # 0
  THEN <<SubSeq(s, 1, Least({ p \in 1..Len(s) : SeparatorEnd(s, p) # 0 }) - 1)>>
       \o Split(SubSeq(s, SeparatorEnd(s, Least({ p \in 1..Len(s) :
                                                  SeparatorEnd(s, p) # 0 })),
                       Len(s)))
  ELSE <<s>>

\* the words the filter looks for anywhere in a name
TimeWords == {"tomorrow", "today"} \cup DayNameSet

\* /(tomorrow|today|monday|...|sunday|\d+\s*(?:am|pm))/i.test(name)
LooksLikeTime(name) ==
  \E k \in 1..Len(name) :
    \/ LowerAt(name, k) \in TimeWords
    \/ IsDigit(name[k]) /\ LowerAt(name, SkipSpaces(name, k + 1)) \in AmPm

KeepName(name) == Len(name) > 0 /\ ~LooksLikeTime(name)

TrimAll(names) == [k \in 1..Len(names) |-> trim(names[k])]

\* the names the with-clause contributes
WithNames(s) ==
  IF \E i \in 1..Len(s) : WithAt(s, i)
  THEN SelectSeq(TrimAll(Split(WithCaptureFrom(s,
         AfterWord(s, Least({ i \in 1..Len(s) : WithAt(s, i) }), {"with"})))),
         KeepName)
  ELSE <<>>

\* invitePattern matches from the word at p
InviteAt(s, p) ==
  /\ AfterWord(s, p, {"invite", "add"}) # 0
  /\ NameAt(s, AfterWord(s, p, {"invite", "add"}))

RECURSIVE InviteNames(_, _)
\* a match whose name starts at j, and the matches after it
InviteNamesFrom(s, j) ==
  <<SubSeq(s, j, FullNameEnd(s, j) - 1)>> \o InviteNames(s, FullNameEnd(s, j))

\* the matches of invitePattern (flag g) from position i on
InviteNames(s, i) ==
  IF \E p \in i..Len(s) : InviteAt(s, p)
  THEN InviteNamesFrom(s, AfterWord(s, Least({ p \in i..Len(s) : InviteAt(s, p) }),
                                    {"invite", "add"}))
  ELSE <<>>

RECURSIVE Unique(_)
\* [...new Set(attendees)]
Unique(names) ==
  IF names = <<>> THEN <<>>
  ELSE IF \E k \in 1..(Len(names) - 1) : names[k] = names[Len(names)]
  THEN Unique(SubSeq(names, 1, Len(names) - 1))
  ELSE Append(Unique(SubSeq(names, 1, Len(names) - 1)), names[Len(names)])

\* NLPService.extractAttendees: each name is the text of its tokens
extractAttendees(s) == Unique(WithNames(s) \o InviteNames(s, 1))

\* -------------------------------------------------------- extractTimeRange
\* A {start, end} pair; found is FALSE for undefined
TimeRange(found, start, end) == [found |-> found, start |-> start, end |-> end]
NoTimeRange == TimeRange(FALSE, Null, Null)

\* setHours(0, 0, 0, 0) and setHours(23, 59, 59, 999)
StartOfDay(d) == setHours4(d, 0, 0, 0, 0)
EndOfDay(d) == setHours4(d, 23, 59, 59, 999)

\* start.setDate(start.getDate() - start.getDay() + shift) and six days on
WeekRange(now, shift) ==
  TimeRange(TRUE,
    StartOfDay(setDate(now, getDate(now) - getDay(now) + shift)),
    EndOfDay(setDate(StartOfDay(setDate(now, getDate(now) - getDay(now) + shift)),
                     getDate(StartOfDay(setDate(now, getDate(now) - getDay(now)
                                                      + shift))) + 6)))

\* new Date(y, m + shift, 1) to new Date(y, m + shift + 1, 0, 23, 59, 59, 999)
MonthRange(now, shift) ==
  TimeRange(TRUE,
    NewDate(getFullYear(now), getMonth(now) + shift, 1),
    [ day |-> NewDate(getFullYear(now), getMonth(now) + shift + 1, 0).day,
      ms |-> MsPerDay - 1 ])

\* \bthis\s+w\b, w a word of W, from the word at i
ThisFollowedBy(s, i, W) ==
  /\ AfterWord(s, i, {"this"}) # 0
  /\ LowerAt(s, AfterWord(s, i, {"this"})) \in W
  /\ EndsAt(s, AfterWord(s, i, {"this"}))

\* rangePatterns[n] matches somewhere in the text
RangeMatches(n, s) ==
  \E i \in 1..Len(s) :
    CASE n = 1 -> WordIn(s, i, {"today"})
      [] n = 2 -> WordIn(s, i, {"tomorrow"})
      [] n = 3 -> ThisFollowedBy(s, i, {"week"})
      [] n = 4 -> NextFollowedBy(s, i, {"week"})
      [] n = 5 -> ThisFollowedBy(s, i, {"month"})
      [] n = 6 -> NextFollowedBy(s, i, {"month"})

\* the extractor of rangePatterns[n]
RangeOf(n, now) ==
  CASE n = 1 -> TimeRange(TRUE, StartOfDay(now), EndOfDay(now))
    [] n = 2 -> TimeRange(TRUE, StartOfDay(addTime(now, 1, "days")),
                          EndOfDay(addTime(now, 1, "days")))
    [] n = 3 -> WeekRange(now, 0)
    [] n = 4 -> WeekRange(now, 7)
    [] n = 5 -> MonthRange(now, 0)
    [] n = 6 -> MonthRange(now, 1)

\* the day of a specific date mention
DayRange(dateTime) ==
  IF dateTime # Null
  THEN TimeRange(TRUE, StartOfDay(dateTime), EndOfDay(dateTime))
  ELSE NoTimeRange

\* NLPService.extractTimeRange
extractTimeRange(s, now) ==
  IF \E n \in 1..6 : RangeMatches(n, s)
  THEN RangeOf(Least({ n \in 1..6 : RangeMatches(n, s) }), now)
  ELSE DayRange(extractDateTime(s, now).dateTime)

\* ------------------------------------------------- extractRecurringPattern
\* undefined
NoPattern == PatternOf("", 0, <<>>, 0, Null, 0)

\* /(every|daily|weekly|monthly|yearly|recurring)/i.test(text): the letters
\* are within one token
RecurrenceWords ==
  {"every", "daily", "weekly", "monthly", "yearly", "recurring", "everyday"}
MentionsRecurrence(s) == \E i \in 1..Len(s) : LowerAt(s, i) \in RecurrenceWords

\* \bevery\s+w\b, w a word of W, from the word at i
EveryFollowedBy(s, i, W) ==
  /\ AfterWord(s, i, {"every"}) # 0
  /\ LowerAt(s, AfterWord(s, i, {"every"})) \in W
  /\ EndsAt(s, AfterWord(s, i, {"every"}))

\* /\bw\b/i.test(text) || /\bevery\s+u\b/i.test(text)
SaysEvery(s, w, u) ==
  \E i \in 1..Len(s) : WordIn(s, i, {w}) \/ EveryFollowedBy(s, i, {u})

\* Extract frequency
FrequencyOf(s) ==
  IF SaysEvery(s, "daily", "day") THEN "DAILY"
  ELSE IF SaysEvery(s, "weekly", "week") THEN "WEEKLY"
  ELSE IF SaysEvery(s, "monthly", "month") THEN "MONTHLY"
  ELSE IF SaysEvery(s, "yearly", "year") THEN "YEARLY"
  ELSE "DAILY"

IntervalUnits ==
  {"day", "days", "week", "weeks", "month", "months", "year", "years"}

\* \bw\s+(\d+)\s+(?:u)\b, w a word of W and u a word of Units, from the word
\* at i: the digits are s[j..j2-1]
CountFrom(s, j, j2, Units) ==
  /\ j # 0 /\ j2 > j
  /\ SkipSpaces(s, j2) > j2
  /\ LowerAt(s, SkipSpaces(s, j2)) \in Units
  /\ EndsAt(s, SkipSpaces(s, j2))

CountAt(s, i, W, Units) ==
  CountFrom(s, AfterWord(s, i, W), SkipDigits(s, AfterWord(s, i, W)), Units)

\* parseInt(match[1]) of the leftmost match; none when there is no match
CountOf(s, W, Units, none) ==
  IF \E i \in 1..Len(s) : CountAt(s, i, W, Units)
  THEN NumberAt(s,
         AfterWord(s, Least({ i \in 1..Len(s) : CountAt(s, i, W, Units) }), W),
         SkipDigits(s,
           AfterWord(s, Least({ i \in 1..Len(s) : CountAt(s, i, W, Units) }), W)))
  ELSE none

\* the index of the day name that a separator of dayPattern's group leads
\* to from e, the index after a day name; 0 if none
NextDayName(s, e) ==
  IF AfterComma(s, e) # 0 /\ LowerAt(s, AfterComma(s, e)) \in DayNameSet
  THEN AfterComma(s, e)
  ELSE IF AfterAnd(s, e) # 0 /\ LowerAt(s, AfterAnd(s, e)) \in DayNameSet
  THEN AfterAnd(s, e)
  ELSE 0

RECURSIVE LastDayName(_, _)
\* the index of the day name the group of dayPattern captured last, k being
\* the index of the day name before it
LastDayName(s, k) ==
  IF NextDayName(s, k + 1) # 0 THEN LastDayName(s, NextDayName(s, k + 1)) ELSE k

\* dayPattern matches from the word at i (the day name need not end there)
EveryDayAt(s, i) ==
  /\ AfterWord(s, i, {"every"}) # 0
  /\ LowerAt(s, AfterWord(s, i, {"every"})) \in DayNameSet

\* the day indexes pushed for the matches of dayPattern (match[1], and
\* match[2] when the group took part) and of singleDayPattern
DaysMentioned(s) ==
  { DayIndex(LowerAt(s, AfterWord(s, i, {"every"}))) :
      i \in { i \in 1..Len(s) : EveryDayAt(s, i) } }
  \cup { DayIndex(LowerAt(s, LastDayName(s, AfterWord(s, i, {"every"})))) :
           i \in { i \in 1..Len(s) : EveryDayAt(s, i) } }

RECURSIVE Sorted(_)
\* [...new Set(daysOfWeek)].sort()
Sorted(S) == IF S = {} THEN <<>> ELSE <<Least(S)>> \o Sorted(S \ {Least(S)})

DaySuffixes == {"st", "nd", "rd", "th"}

\* /\bon\s+the\s+(\d{1,2})(?:st|nd|rd|th)?\b/i, the digits s[j..j2-1]
DayOfMonthFrom(s, j, j2) ==
  /\ j # 0 /\ (j2 - j) \in 1..2
  /\ \/ ~WordAt(s, j2)
     \/ LowerAt(s, j2) \in DaySuffixes /\ EndsAt(s, j2)

\* the index of the digits after \bon\s+the\s+ from the word at i; 0 if none
AfterOnThe(s, i) ==
  IF AfterWord(s, i, {"on"}) # 0
  THEN AfterWord(s, AfterWord(s, i, {"on"}), {"the"})
  ELSE 0

DayOfMonthAt(s, i) ==
  DayOfMonthFrom(s, AfterOnThe(s, i), SkipDigits(s, AfterOnThe(s, i)))

DayOfMonthOf(s) ==
  IF \E i \in 1..Len(s) : DayOfMonthAt(s, i)
  THEN NumberAt(s, AfterOnThe(s, Least({ i \in 1..Len(s) : DayOfMonthAt(s, i) })),
                SkipDigits(s, AfterOnThe(s, Least({ i \in 1..Len(s) :
                                                    DayOfMonthAt(s, i) }))))
  ELSE 0

\* [^,]+ from j: the index of the first comma, or after the text
UpToComma(s, j) == Least({ k \in j..(Len(s) + 1) : k > Len(s) \/ s[k] = "," })

\* /\buntil\s+([^,]+)/i matches from the word at i
UntilAt(s, i) ==
  /\ AfterWord(s, i, {"until"}) # 0
  /\ UpToComma(s, AfterWord(s, i, {"until"})) > AfterWord(s, i, {"until"})

\* untilMatch[1]
UntilCaptureFrom(s, j) == SubSeq(s, j, UpToComma(s, j) - 1)

\* this.extractDateTime(untilMatch[1]).dateTime; Null when there is no
\* until clause or no date in it
UntilDate(s, now) ==
  IF \E i \in 1..Len(s) : UntilAt(s, i)
  THEN extractDateTime(
         UntilCaptureFrom(s, AfterWord(s, Least({ i \in 1..Len(s) : UntilAt(s, i) }),
                                       {"until"})),
         now).dateTime
  ELSE Null

\* NLPService.extractRecurringPattern
extractRecurringPattern(s, now) ==
  IF ~MentionsRecurrence(s) THEN NoPattern
  ELSE PatternOf(FrequencyOf(s),
                 CountOf(s, {"every"}, IntervalUnits, 1),
                 IF FrequencyOf(s) = "WEEKLY" THEN Sorted(DaysMentioned(s)) ELSE <<>>,
                 IF FrequencyOf(s) = "MONTHLY" THEN DayOfMonthOf(s) ELSE 0,
                 UntilDate(s, now),
                 CountOf(s, {"for"}, {"time", "times", "occurrence", "occurrences"}, 0))

\* ---------------------------------------------------------- extractEntities
\* The entities the claims speak of.  An absent entity is Null (dateTime),
\* 0 (duration), <<>> (attendees), NoTimeRange, NoPattern.
RangeIntents == {"LIST_EVENTS", "QUERY_SCHEDULE", "FIND_TIME", "CHECK_CONFLICTS"}

EntitiesOf(dateTimeResult, attendees, timeRange, recurringPattern) ==
  [ dateTime |-> dateTimeResult.dateTime,
    duration |-> dateTimeResult.duration,
    attendees |-> attendees,
    timeRange |-> timeRange,
    recurringPattern |-> recurringPattern ]

\* NLPService.extractEntities
extractEntities(text, intent, now) ==
  EntitiesOf(extractDateTime(text, now),
             extractAttendees(text),
             IF intent \in RangeIntents THEN extractTimeRange(text, now)
             ELSE NoTimeRange,
             extractRecurringPattern(text, now))

\* NLPService.fallbackParse with its entities
fallbackParseEntities(input, now) ==
  [ intent |-> fallbackParse(input).intent,
    entities |-> extractEntities(input, fallbackParse(input).intent, now),
    confidence |-> fallbackParse(input).confidence,
    originalText |-> input ]

\* A date of the reply is the text of an ISO local date-time, given by its
\* fields (month 1..12); NoText is an absent field.
IsoText(year, month, date, hours, minutes) ==
  [ year |-> year, month |-> month, date |-> date, hours |-> hours,
    minutes |-> minutes ]
NoText == IsoText(0, 0, 0, 0, 0)

\* new Date(text)
NewDateOf(text) ==
  [ day |-> DayOfCivil(text.year, text.month - 1, text.date),
    ms |-> text.hours * MsPerHour + text.minutes * MsPerMinute ]

\* a recurringPattern or timeRange the reply does not have
AbsentPattern == PatternOf("", 0, <<>>, 0, NoText, 0)
AbsentRange == TimeRange(FALSE, NoText, NoText)

\* the reply's recurringPattern as validateAndTransformAIResponse rebuilds it
TransformPattern(pattern) ==
  IF pattern = AbsentPattern THEN NoPattern
  ELSE PatternOf(IF pattern.frequency \in RecurrenceFrequency
                 THEN pattern.frequency ELSE "DAILY",
                 IntervalOrOne(pattern),
                 pattern.daysOfWeek,
                 pattern.dayOfMonth,
                 IF pattern.endDate # NoText THEN NewDateOf(pattern.endDate)
                 ELSE Null,
                 pattern.occurrences)

\* the reply's entities as validateAndTransformAIResponse transforms them
TransformEntities(entities) ==
  [ dateTime |-> IF entities.dateTime # NoText THEN NewDateOf(entities.dateTime)
                 ELSE Null,
    duration |-> entities.duration,
    attendees |-> entities.attendees,
    timeRange |-> IF entities.timeRange.found
                  THEN TimeRange(TRUE, NewDateOf(entities.timeRange.start),
                                 NewDateOf(entities.timeRange.end))
                  ELSE NoTimeRange,
    recurringPattern |-> TransformPattern(entities.recurringPattern) ]

\* NLPService.validateAndTransformAIResponse with its entities
validateEntities(aiResponse, originalText) ==
  [ intent |-> validateAndTransformAIResponse(aiResponse, originalText).intent,
    entities |-> TransformEntities(aiResponse.entities),
    confidence |->
      validateAndTransformAIResponse(aiResponse, originalText).confidence,
    originalText |-> originalText ]

\* ------------------------------------------------------------------ state
VARIABLES
  apiKey,          \* config.openrouter.apiKey is non-empty
  cache,           \* MemoryCache.cache : key -> [data, timestamp, ttl]
  rateLimitReset,  \* NLPService.rateLimitReset
  now,             \* Date.now()
  pc,              \* where each parseCommand call stands
  input,           \* the argument of each call
  attempt,         \* parseWithAI's loop variable
  result,          \* the ParsedCommand each call resolved with
  hist,            \* what each call has done so far
  started,         \* number of calls made so far
  requests,        \* number of requests sent so far
  call,            \* the library function applied last, with its arguments
  ret,             \* what that application returned
  frame,           \* where that application stands
  setLog,          \* key -> the MemoryCache.set that touched the key last
  ticks            \* number of times the clock was advanced

vars == <<apiKey, cache, rateLimitReset, now, pc, input, attempt, result,
          hist, started, requests, call, ret, frame, setLog, ticks>>

\* state of NLPService's calls, and state used when a library function or
\* the MemoryCache is exercised on its own
nlpVars == <<apiKey, rateLimitReset, pc, input, attempt, result, hist,
             started, requests>>
libVars == <<call, ret, frame, setLog, ticks>>

NoCall == [fn |-> "none"]
NoRet == [done |-> FALSE]

\* inputs of parseCommand
Texts ==
  { <<>>, <<" ">>, <<"Schedule", " ", "a", " ", "Meeting">> }

\* this.fallbackParse(input), for each input in use
localParse == [text \in Texts |-> fallbackParse(text)]

\* idle time between the previous call's return and a call (the first call
\* is made at StartTime), and the time a response takes
Gaps == {0, 60000, 3600001}
Latencies == {100}

NoHist ==
  [ path |-> "none",        \* hit, cooldown, local, remote, exhausted, exception
    miss |-> FALSE,         \* the cache lookup found nothing usable
    reqs |-> 0,             \* axios.post calls made
    retryFails |-> 0,       \* attempts that failed with a retryable failure
    lastClass |-> "none",   \* what the last response was (ResponseClass)
    reply |-> NoReply,      \* the JSON object of the valid response, if any
    sentCooling |-> FALSE,  \* a request went out while rateLimitReset > now
    wrote |-> FALSE,        \* cache.set was called
    aiExit |-> "none",      \* how parseWithAI ended: returned, threw
    fallbackRuns |-> 0,     \* fallbackParse calls made
    waited |-> 0,           \* backoff delay slept, in ms
    resetAtStart |-> 0,     \* rateLimitReset when the call started
    startAt |-> 0,
    endAt |-> 0 ]

\* The records of the calls before c's predecessor are dropped when c
\* starts: each call is related to the call before it at most.
Forget(f, c, blank) == [d \in Calls |-> IF d < c - 1 THEN blank ELSE f[d]]

Init ==
  /\ apiKey \in BOOLEAN
  /\ cache = <<>>
  /\ rateLimitReset = 0
  /\ now = StartTime
  /\ pc = [c \in Calls |-> "idle"]
  /\ input = [c \in Calls |-> <<>>]
  /\ attempt = [c \in Calls |-> 0]
  /\ result = [c \in Calls |-> NoEntry]
  /\ hist = [c \in Calls |-> NoHist]
  /\ started = 0
  /\ requests = 0
  /\ call = NoCall
  /\ ret = NoRet
  /\ frame = Idle
  /\ setLog = <<>>
  /\ ticks = 0

\* The failure is one a retry may cure: anything but a valid reply and a
\* client-error status other than 429.
IsRetryableFailure(o) ==
  /\ o.kind # "ok"
  /\ ~(o.kind = "http" /\ o.status \in 400..499 /\ o.status # 429)

\* What a response is, as the claims tell responses apart.
ResponseClass(o) ==
  IF o.kind = "ok" THEN "ok"
  ELSE IF o.kind = "http" /\ o.status = 429 THEN "rate-limited"
  ELSE IF o.kind = "http" /\ o.status \in 400..499 THEN "client-error"
  ELSE "other-failure"

\* The call's record once the response o has been received.
Observed(h, o) ==
  [h EXCEPT !.lastClass = ResponseClass(o),
            !.reply = o.reply,
            !.retryFails = IF IsRetryableFailure(o) THEN h.retryFails + 1
                           ELSE h.retryFails]

\* parseCommand's catch block: return this.fallbackParse(input)
CatchBlock(h, text, t) ==
  [ pc |-> "done",
    result |-> localParse[text],
    hist |-> [h EXCEPT !.path = "exception", !.aiExit = "threw",
                       !.fallbackRuns = h.fallbackRuns + 1, !.endAt = t] ]

\* parseCommand up to its first await: cache lookup, cool-down check, and
\* either the first request of parseWithAI or the local parse.
parseCommandEntered(c, text, gap) ==
  /\ pc[c] = "idle"
  /\ c = started + 1
  /\ (started = 0) => (gap = 0)
  /\ LET t == now + gap
         key == cacheKey(text)
         cachedResult == CacheGetValue(cache, key, t)
         h0 == [NoHist EXCEPT !.startAt = t, !.resetAtStart = rateLimitReset]
         h1 == [h0 EXCEPT !.miss = TRUE]
         pcs == Forget(pc, c, "past")
         inputs == Forget(input, c, <<>>)
         attempts == Forget(attempt, c, 0)
         results == Forget(result, c, NoEntry)
         hists == Forget(hist, c, NoHist)
     IN  /\ now' = t
         /\ started' = c
         /\ input' = [inputs EXCEPT ![c] = text]
         /\ cache' = CacheGetEffect(cache, key, t)
         /\ IF cachedResult # NoEntry
            THEN /\ pc' = [pcs EXCEPT ![c] = "done"]
                 /\ result' = [results EXCEPT ![c] = cachedResult]
                 /\ hist' = [hists EXCEPT ![c] =
                               [h0 EXCEPT !.path = "hit", !.endAt = t]]
                 /\ attempt' = attempts
                 /\ UNCHANGED requests
            ELSE IF InCooldown(rateLimitReset, t)
            THEN /\ pc' = [pcs EXCEPT ![c] = "done"]
                 /\ result' = [results EXCEPT ![c] = localParse[text]]
                 /\ hist' = [hists EXCEPT ![c] =
                               [h1 EXCEPT !.path = "cooldown",
                                          !.fallbackRuns = 1, !.endAt = t]]
                 /\ attempt' = attempts
                 /\ UNCHANGED requests
            ELSE IF apiKey
            THEN /\ requests < MaxRequests
                 /\ requests' = requests + 1
                 /\ pc' = [pcs EXCEPT ![c] = "awaitHttp"]
                 /\ attempt' = [attempts EXCEPT ![c] = 1]
                 /\ hist' = [hists EXCEPT ![c] = [h1 EXCEPT !.reqs = 1]]
                 /\ result' = results
            ELSE /\ pc' = [pcs EXCEPT ![c] = "awaitLocal"]
                 /\ hist' = [hists EXCEPT ![c] = [h1 EXCEPT !.fallbackRuns = 1]]
                 /\ attempt' = attempts
                 /\ result' = results
                 /\ UNCHANGED requests
  /\ UNCHANGED <<apiKey, rateLimitReset>>
  /\ UNCHANGED libVars

\* a call made when every earlier call has returned
parseCommand(c, text, gap) ==
  /\ \A d \in Calls : pc[d] \in {"idle", "done", "past"}
  /\ parseCommandEntered(c, text, gap)

\* a call made while the call before it may be waiting for its response or
\* for its backoff timer (the calls before that one have returned)
parseCommandOverlapping(c, text, gap) ==
  /\ \A d \in Calls : d < c - 1 => pc[d] \in {"idle", "done", "past"}
  /\ parseCommandEntered(c, text, gap)

\* No credential: the awaited fallbackParse resolves, the result is cached.
localParsed(c) ==
  /\ pc[c] = "awaitLocal"
  /\ LET parsedCommand == localParse[input[c]]
     IN  /\ cache' = CacheSet(cache, cacheKey(input[c]), parsedCommand,
                              ParseCacheTtl, now)
         /\ result' = [result EXCEPT ![c] = parsedCommand]
  /\ pc' = [pc EXCEPT ![c] = "done"]
  /\ hist' = [hist EXCEPT ![c].path = "local", ![c].wrote = TRUE,
                          ![c].endAt = now]
  /\ UNCHANGED <<apiKey, rateLimitReset, now, input, attempt, started,
                 requests>>
  /\ UNCHANGED libVars

\* The awaited axios.post settles with outcome o after lat ms: the body of
\* parseWithAI's try block and its catch block, and what parseCommand does
\* when parseWithAI returns or throws.
httpSettled(c, o, lat) ==
  /\ pc[c] = "awaitHttp"
  /\ LET t == now + lat
         text == input[c]
         h == Observed(hist[c], o)
     IN  /\ now' = t
         /\ IF o.kind = "ok"
            THEN LET parsedCommand ==
                       validateAndTransformAIResponse(o.reply, text)
                 IN  /\ cache' = CacheSet(cache, cacheKey(text), parsedCommand,
                                          ParseCacheTtl, t)
                     /\ result' = [result EXCEPT ![c] = parsedCommand]
                     /\ pc' = [pc EXCEPT ![c] = "done"]
                     /\ hist' = [hist EXCEPT ![c] =
                                   [h EXCEPT !.path = "remote", !.wrote = TRUE,
                                             !.aiExit = "returned", !.endAt = t]]
                     /\ UNCHANGED rateLimitReset
            ELSE /\ rateLimitReset' =
                      IF IsRateLimited(o)
                      THEN rateLimitResetAfter429(o.retryAfter, t)
                      ELSE rateLimitReset
                 /\ UNCHANGED cache
                 /\ IF IsNonRetryable(o)
                    THEN LET r == CatchBlock(h, text, t)
                         IN  /\ pc' = [pc EXCEPT ![c] = r.pc]
                             /\ result' = [result EXCEPT ![c] = r.result]
                             /\ hist' = [hist EXCEPT ![c] = r.hist]
                    ELSE IF MayRetry(attempt[c])
                    THEN /\ pc' = [pc EXCEPT ![c] = "backoff"]
                         /\ hist' = [hist EXCEPT ![c] = h]
                         /\ UNCHANGED result
                    ELSE LET r == CatchBlock(h, text, t)
                         IN  /\ pc' = [pc EXCEPT ![c] = r.pc]
                             /\ result' = [result EXCEPT ![c] = r.result]
                             /\ hist' = [hist EXCEPT ![c] = r.hist]
  /\ UNCHANGED <<apiKey, input, attempt, started, requests>>
  /\ UNCHANGED libVars

\* The backoff timer fires (retryDelay * attempt ms), the loop increments
\* attempt and, if the loop condition holds, sends the next request;
\* otherwise the statement after the loop returns the local parse, which
\* parseCommand caches.
backoffElapsed(c) ==
  /\ pc[c] = "backoff"
  /\ LET delay == retryDelay * attempt[c]
         t == now + delay
         next == attempt[c] + 1
         h == [hist[c] EXCEPT !.waited = hist[c].waited + delay]
     IN  /\ now' = t
         /\ attempt' = [attempt EXCEPT ![c] = next]
         /\ IF LoopContinues(next)
            THEN /\ requests < MaxRequests
                 /\ requests' = requests + 1
                 /\ pc' = [pc EXCEPT ![c] = "awaitHttp"]
                 /\ hist' = [hist EXCEPT ![c] =
                               [h EXCEPT !.reqs = h.reqs + 1,
                                         !.sentCooling = h.sentCooling
                                             \/ rateLimitReset > t]]
                 /\ UNCHANGED <<cache, result>>
            ELSE LET parsedCommand == localParse[input[c]]
                 IN  /\ cache' = CacheSet(cache, cacheKey(input[c]),
                                          parsedCommand, ParseCacheTtl, t)
                     /\ result' = [result EXCEPT ![c] = parsedCommand]
                     /\ pc' = [pc EXCEPT ![c] = "done"]
                     /\ hist' = [hist EXCEPT ![c] =
                                   [h EXCEPT !.path = "exhausted",
                                             !.wrote = TRUE,
                                             !.aiExit = "returned",
                                             !.fallbackRuns = h.fallbackRuns + 1,
                                             !.endAt = t]]
                     /\ UNCHANGED requests
  /\ UNCHANGED <<apiKey, rateLimitReset, input, started>>
  /\ UNCHANGED libVars

\* The periodic sweep (setInterval in MemoryCache's constructor).
cleanup ==
  /\ cache' = CacheCleanup(cache, now)
  /\ cache' # cache
  /\ UNCHANGED <<now, nlpVars, libVars>>

Next ==
  \/ \E c \in Calls, text \in Texts, gap \in Gaps : parseCommand(c, text, gap)
  \/ \E c \in Calls : localParsed(c)
  \/ \E c \in Calls, o \in Outcomes, lat \in Latencies : httpSettled(c, o, lat)
  \/ \E c \in Calls : backoffElapsed(c)
  \/ cleanup

Spec == Init /\ [][Next]_vars

TypeOK ==
  /\ apiKey \in BOOLEAN
  /\ started \in 0..MaxCalls
  /\ requests \in 0..MaxRequests
  /\ \A c \in Calls :
       pc[c] \in {"idle", "awaitLocal", "awaitHttp", "backoff", "done", "past"}
  /\ \A c \in Calls : attempt[c] \in 0..maxRetries

\* ------------------------------------------------------ overlapping calls
\* responses in use when calls overlap
OverlapOutcomes ==
  { OkOutcome([intent |-> "LIST_EVENTS", confidence |-> 95]),
    OkOutcome([intent |-> "CREATE_EVENT", confidence |-> 80]),
    HttpOutcome(429, Header(<<"1">>)), HttpOutcome(400, NoHeader) }
OverlapGaps == {0, 3600001}

NextOverlap ==
  \/ \E c \in Calls, text \in Texts, gap \in OverlapGaps :
       parseCommandOverlapping(c, text, gap)
  \/ \E c \in Calls : localParsed(c)
  \/ \E c \in Calls, o \in OverlapOutcomes, lat \in Latencies :
       httpSettled(c, o, lat)
  \/ \E c \in Calls : backoffElapsed(c)
  \/ cleanup

OverlapSpec == Init /\ [][NextOverlap]_vars

\* ------------------------------------------------- MemoryCache on its own
\* keys, values and ttl arguments (seconds; 0 is the argument left out)
CacheKeys == { <<"nlp:">>, <<"nlp:", "hello">> }
CacheValues ==
  { [intent |-> "UNKNOWN", confidence |-> 30, originalText |-> <<>>],
    [intent |-> "LIST_EVENTS", confidence |-> 95, originalText |-> <<"Hello">>] }
Ttls == {0, 1, 2}
\* amounts the clock advances by between two operations, in ms
TickSteps == {1, 999}

\* NLPService constructed without a credential, no call made
NlpIdle ==
  /\ apiKey = FALSE
  /\ rateLimitReset = 0
  /\ pc = [c \in Calls |-> "idle"]
  /\ input = [c \in Calls |-> <<>>]
  /\ attempt = [c \in Calls |-> 0]
  /\ result = [c \in Calls |-> NoEntry]
  /\ hist = [c \in Calls |-> NoHist]
  /\ started = 0
  /\ requests = 0

InitCache ==
  /\ NlpIdle
  /\ cache = <<>>
  /\ now = StartTime
  /\ call = NoCall
  /\ ret = NoRet
  /\ frame = Idle
  /\ setLog = <<>>
  /\ ticks = 0

\* cache.set(key, value, ttl)
cacheSet(key, value, ttl) ==
  /\ cache' = CacheSet(cache, key, value, ttl, now)
  /\ call' = [fn |-> "set", key |-> key]
  /\ ret' = NoRet
  /\ setLog' = [k \in DOMAIN setLog \cup {key} |->
                  IF k = key THEN [value |-> value, at |-> now, ttl |-> ttl]
                  ELSE setLog[k]]
  /\ UNCHANGED <<now, frame, ticks, nlpVars>>

\* cache.get(key): ret records the value returned, whether the key is still
\* in the map afterwards, and the set that touched the key last, if any
cacheGet(key) ==
  /\ cache' = CacheGetEffect(cache, key, now)
  /\ call' = [fn |-> "get", key |-> key]
  /\ ret' = [ done |-> TRUE,
              value |-> CacheGetValue(cache, key, now),
              at |-> now,
              kept |-> key \in DOMAIN cache',
              tracked |-> key \in DOMAIN setLog,
              lastSet |-> IF key \in DOMAIN setLog THEN setLog[key]
                          ELSE [value |-> NoEntry, at |-> 0, ttl |-> 0] ]
  /\ UNCHANGED <<now, frame, setLog, ticks, nlpVars>>

\* cache.delete(key)
cacheDelete(key) ==
  /\ cache' = CacheDelete(cache, key)
  /\ call' = [fn |-> "delete", key |-> key]
  /\ ret' = [done |-> TRUE, value |-> key \in DOMAIN cache]
  /\ setLog' = [k \in DOMAIN setLog \ {key} |-> setLog[k]]
  /\ UNCHANGED <<now, frame, ticks, nlpVars>>

\* cache.clear()
cacheClear ==
  /\ cache' = <<>>
  /\ call' = [fn |-> "clear"]
  /\ ret' = NoRet
  /\ setLog' = <<>>
  /\ UNCHANGED <<now, frame, ticks, nlpVars>>

\* time passes
tick(d) ==
  /\ ticks < MaxTicks
  /\ ticks' = ticks + 1
  /\ now' = now + d
  /\ UNCHANGED <<cache, call, ret, frame, setLog, nlpVars>>

NextCache ==
  \/ \E key \in CacheKeys, value \in CacheValues, ttl \in Ttls :
       cacheSet(key, value, ttl)
  \/ \E key \in CacheKeys : cacheGet(key)
  \/ \E key \in CacheKeys : cacheDelete(key)
  \/ cacheClear
  \/ cleanup
  \/ \E d \in TickSteps : tick(d)

CacheSpec == InitCache /\ [][NextCache]_vars

\* ------------------------------------------- recurrence helpers on their own
NineAM == 9 * MsPerHour
AnchorDates == { [day |-> d, ms |-> NineAM] : d \in {0, 30, 59} }
ThresholdDates == { [day |-> d, ms |-> t] : d \in {0, 30, 45}, t \in {0, NineAM} }
RangeStarts == { [day |-> d, ms |-> t] : d \in {0, 7, 31}, t \in {0, NineAM} }
RangeEnds == { [day |-> d, ms |-> NineAM] : d \in {7, 45, 100} }
EndDates == { Null, [day |-> 3, ms |-> 0], [day |-> 40, ms |-> NineAM] }
DaysOfWeekChoices == { <<1>>, <<4>>, <<3, 1>> }
DayOfMonthChoices == { 15, 31 }

Patterns ==
  { PatternOf(f, i, <<>>, 0, e, n) :
      f \in RecurrenceFrequency, i \in 0..MaxInterval, e \in EndDates,
      n \in 0..MaxOccurrences }
  \cup { PatternOf("WEEKLY", i, w, 0, e, n) :
           i \in 0..MaxInterval, w \in DaysOfWeekChoices, e \in EndDates,
           n \in 0..MaxOccurrences }
  \cup { PatternOf("MONTHLY", i, <<>>, d, e, n) :
           i \in 0..MaxInterval, d \in DayOfMonthChoices, e \in EndDates,
           n \in 0..MaxOccurrences }

NextOccurrenceCalls ==
  { [ fn |-> "getNextOccurrence", startDate |-> a, pattern |-> p,
      afterDate |-> t ] :
      a \in AnchorDates, p \in Patterns, t \in ThresholdDates }

OccurrencesInRangeCalls ==
  { [ fn |-> "getOccurrencesInRange", startDate |-> a, pattern |-> p,
      rangeStart |-> rs, rangeEnd |-> re ] :
      a \in AnchorDates, p \in Patterns, rs \in RangeStarts, re \in RangeEnds }

InitDate ==
  /\ NlpIdle
  /\ cache = <<>>
  /\ now = StartTime
  /\ call \in NextOccurrenceCalls \cup OccurrencesInRangeCalls
  /\ ret = NoRet
  /\ frame = Idle
  /\ setLog = <<>>
  /\ ticks = 0

\* getNextOccurrence is called: it returns at once or enters its loop
callGetNextOccurrence ==
  /\ call.fn = "getNextOccurrence"
  /\ ~ret.done
  /\ frame.at = "idle"
  /\ \E entered \in { EnterNextOccurrence(call.startDate, call.pattern,
                                           call.afterDate) } :
       IF entered.returns
       THEN /\ ret' = [done |-> TRUE, value |-> entered.value]
            /\ UNCHANGED frame
       ELSE /\ frame' = FrameOf("self", call.afterDate, entered, Null, 0, <<>>)
            /\ UNCHANGED ret
  /\ UNCHANGED <<cache, now, call, setLog, ticks, nlpVars>>

\* one pass of the loop of the getNextOccurrence that was called
nextOccurrencePass ==
  /\ frame.at = "self"
  /\ \E pass \in { NextOccurrencePass(frame.inner.current,
                                       frame.inner.occurrenceCount,
                                       call.pattern, frame.afterDate) } :
       IF pass.returns
       THEN /\ ret' = [done |-> TRUE, value |-> pass.value]
            /\ frame' = Idle
       ELSE /\ frame' = [frame EXCEPT !.inner =
                           [ current |-> pass.current,
                             occurrenceCount |-> pass.occurrenceCount ]]
            /\ UNCHANGED ret
  /\ UNCHANGED <<cache, now, call, setLog, ticks, nlpVars>>

\* getOccurrencesInRange is called: it returns at once or runs up to its
\* first call of getNextOccurrence
callGetOccurrencesInRange ==
  /\ call.fn = "getOccurrencesInRange"
  /\ ~ret.done
  /\ frame.at = "idle"
  /\ \E o \in { OccurrencesStart(call.startDate, call.pattern,
                                  call.rangeStart, call.rangeEnd) } :
       IF o.returns
       THEN /\ ret' = [done |-> TRUE, value |-> o.value]
            /\ UNCHANGED frame
       ELSE /\ frame' = o.frame
            /\ UNCHANGED ret
  /\ UNCHANGED <<cache, now, call, setLog, ticks, nlpVars>>

\* What getOccurrencesInRange does when the getNextOccurrence it waits for
\* returns value.
OccurrencesResume(value) ==
  IF frame.at = "first"
  THEN OccurrencesAfterFirst(call.startDate, value, call.pattern,
                             call.rangeStart, call.rangeEnd)
  ELSE OccurrencesAfterNext(frame, value, call.pattern, call.rangeStart,
                            call.rangeEnd)

\* one pass of the loop of the getNextOccurrence that getOccurrencesInRange
\* called; when it returns, getOccurrencesInRange runs on to its next call
\* of getNextOccurrence or to its return
occurrencesPass ==
  /\ frame.at \in {"first", "next"}
  /\ \E pass \in { NextOccurrencePass(frame.inner.current,
                                       frame.inner.occurrenceCount,
                                       call.pattern, frame.afterDate) } :
       IF pass.returns
       THEN \E o \in { OccurrencesResume(pass.value) } :
              IF o.returns
              THEN /\ ret' = [done |-> TRUE, value |-> o.value]
                   /\ frame' = Idle
              ELSE /\ frame' = o.frame
                   /\ UNCHANGED ret
       ELSE /\ frame' = [frame EXCEPT !.inner =
                           [ current |-> pass.current,
                             occurrenceCount |-> pass.occurrenceCount ]]
            /\ UNCHANGED ret
  /\ UNCHANGED <<cache, now, call, setLog, ticks, nlpVars>>

NextDate ==
  \/ callGetNextOccurrence
  \/ nextOccurrencePass
  \/ callGetOccurrencesInRange
  \/ occurrencesPass

DateSpec == InitDate /\ [][NextDate]_vars

\* ------------------------- recurrence helpers on every pattern of the type
\* RecurringPattern declares frequency as 'daily' | 'weekly' | 'monthly' |
\* 'yearly'; getNextOccurrence switches on the RecurrenceFrequency values.
DeclaredFrequencies == {"daily", "weekly"}
DeclaredPatterns ==
  { PatternOf(f, i, <<>>, 0, e, n) :
      f \in DeclaredFrequencies \cup {"DAILY", "MONTHLY"}, i \in {0, 2},
      e \in {Null, [day |-> 40, ms |-> NineAM]}, n \in 0..MaxOccurrences }
  \cup { PatternOf("WEEKLY", 1, <<4>>, 0, Null, n) : n \in 0..MaxOccurrences }

DeclaredCalls ==
  { [ fn |-> "getNextOccurrence", startDate |-> a, pattern |-> p,
      afterDate |-> t ] :
      a \in { [day |-> 30, ms |-> NineAM] }, p \in DeclaredPatterns,
      t \in { [day |-> d, ms |-> NineAM] : d \in {0, 30, 35} } }
  \cup
  { [ fn |-> "getOccurrencesInRange", startDate |-> a, pattern |-> p,
      rangeStart |-> rs, rangeEnd |-> re ] :
      a \in { [day |-> 30, ms |-> NineAM] }, p \in DeclaredPatterns,
      rs \in { [day |-> d, ms |-> NineAM] : d \in {7, 31} },
      re \in { [day |-> 45, ms |-> NineAM] } }

InitDeclared ==
  /\ NlpIdle
  /\ cache = <<>>
  /\ now = StartTime
  /\ call \in DeclaredCalls
  /\ ret = NoRet
  /\ frame = Idle
  /\ setLog = <<>>
  /\ ticks = 0

\* The helpers are synchronous: a call that was made starts, and a loop
\* that is running makes its next pass.
DeclaredSpec ==
  /\ InitDeclared
  /\ [][NextDate]_vars
  /\ WF_vars(callGetNextOccurrence)
  /\ WF_vars(nextOccurrencePass)
  /\ WF_vars(callGetOccurrencesInRange)
  /\ WF_vars(occurrencesPass)

\* ---------------------------------------------- the parsers on their own
ScheduleWithJohn ==
  <<"Schedule", " ", "a", " ", "meeting", " ", "with", " ", "John", " ",
    "tomorrow", " ", "at", " ", "2", "pm">>
StandupEveryMonday ==
  <<"Create", " ", "a", " ", "team", " ", "standup", " ", "every", " ",
    "Monday", " ", "at", " ", "9", "am">>
EveryDayUntilFor ==
  <<"Schedule", " ", "a", " ", "meeting", " ", "every", " ", "day", " ",
    "until", " ", "tomorrow", " ", "for", " ", "5", " ", "times">>

\* inputs of the Local Fallback Parser
EntityTexts ==
  { ScheduleWithJohn, StandupEveryMonday, EveryDayUntilFor,
    <<"Schedule", " ", "a", " ", "weekly", " ", "meeting", " ", "every", " ",
      "Monday", " ", "and", " ", "Friday", " ", "at", " ", "1", "0", ":", "3",
      "0">>,
    <<"Schedule", " ", "a", " ", "meeting", " ", "with", " ", "John">>,
    <<"Show", " ", "my", " ", "calendar", " ", "today">>,
    <<"show", " ", "my", " ", "schedule", " ", "next", " ", "week">>,
    <<"list", " ", "events", " ", "this", " ", "month">>,
    <<"show", " ", "my", " ", "calendar", " ", "on", " ", "3", "/", "1", "5">>,
    <<"create", " ", "a", " ", "monthly", " ", "meeting", " ", "on", " ",
      "the", " ", "1", "5", "th", " ", "for", " ", "3", " ", "times">>,
    <<"schedule", " ", "a", " ", "2", "-", "hour", " ", "meeting", " ", "next",
      " ", "Friday">>,
    <<"what", " ", "time", " ", "is", " ", "the", " ", "meeting", " ", "in",
      " ", "2", " ", "days">> }

\* new Date() when the parser runs: Monday 2024-01-01 10:00, Wednesday
\* 2024-01-31 23:30, Thursday 2024-02-29 10:00, Sunday 2024-03-31 00:00,
\* Tuesday 2024-12-31 09:00
Nows ==
  { [day |-> 0, ms |-> 10 * MsPerHour],
    [day |-> 30, ms |-> 23 * MsPerHour + 30 * MsPerMinute],
    [day |-> 59, ms |-> 10 * MsPerHour],
    [day |-> 90, ms |-> 0],
    [day |-> 365, ms |-> 9 * MsPerHour] }

MarchMorning == IsoText(2024, 3, 1, 9, 0)
MarchEvening == IsoText(2024, 3, 1, 17, 0)

ReplyRanges ==
  { AbsentRange, TimeRange(TRUE, MarchMorning, MarchEvening),
    TimeRange(TRUE, MarchEvening, MarchMorning),
    TimeRange(TRUE, MarchMorning, MarchMorning) }

ReplyPatterns ==
  { AbsentPattern,
    PatternOf("WEEKLY", 1, <<1>>, 0, MarchEvening, 0),
    PatternOf("WEEKLY", 2, <<1>>, 0, NoText, 10),
    PatternOf("DAILY", 1, <<>>, 0, MarchEvening, 10),
    PatternOf("weekly", 0, <<>>, 0, NoText, 0) }

\* the JSON objects of valid responses, with their entities
EntityReplies ==
  { [ intent |-> "CREATE_EVENT", confidence |-> 90,
      entities |-> [ dateTime |-> d, duration |-> 0, attendees |-> <<>>,
                     timeRange |-> r, recurringPattern |-> p ] ] :
      d \in {NoText, MarchMorning}, r \in ReplyRanges, p \in ReplyPatterns }

FallbackParseCalls ==
  { [fn |-> "fallbackParse", input |-> t, now |-> n] :
      t \in EntityTexts, n \in Nows }

ValidateCalls ==
  { [fn |-> "validateAndTransformAIResponse", aiResponse |-> r,
     originalText |-> ScheduleWithJohn] : r \in EntityReplies }

\* inputs of extractDateTime: "at H(am|pm)" and "at H:30(am|pm)" for every
\* one- and two-digit H, said is what the text says (not an argument)
HourTexts ==
  { [digits |-> <<Digits[a]>>, value |-> a - 1] : a \in 1..10 } \cup
  { [digits |-> <<Digits[a], Digits[b]>>, value |-> (a - 1) * 10 + (b - 1)] :
      a \in 1..10, b \in 1..10 }
PeriodTexts ==
  { [token |-> "am", period |-> "am"], [token |-> "pm", period |-> "pm"],
    [token |-> "PM", period |-> "pm"] }
AtClauseCalls ==
  { [ fn |-> "extractDateTime",
      text |-> <<"at", " ">> \o h.digits \o m \o <<p.token>>,
      now |-> n,
      said |-> [kind |-> "at", hour |-> h.value, period |-> p.period] ] :
      h \in HourTexts, m \in { <<>>, <<":", "3", "0">> }, p \in PeriodTexts,
      n \in { [day |-> 0, ms |-> 10 * MsPerHour],
              [day |-> 59, ms |-> 23 * MsPerHour + 30 * MsPerMinute] } }

\* "next <weekday>" for every weekday, on every weekday
WeekNows ==
  { [day |-> d, ms |-> 10 * MsPerHour] : d \in 0..6 } \cup
  { [day |-> 59, ms |-> 23 * MsPerHour + 30 * MsPerMinute] }
NextWeekdayCalls ==
  { [ fn |-> "extractDateTime",
      text |-> <<"see", " ", "you", " ", "next", " ", dayNames[k]>>,
      now |-> n,
      said |-> [kind |-> "next", targetDay |-> k - 1] ] :
      k \in 1..7, n \in WeekNows }

\* durations
HourAndHalf == <<"1", ".", "5", " ", "hours">>
DurationTexts ==
  { HourAndHalf,
    <<"meet", " ", "for", " ", "2", ".", "5", " ", "hrs">>,
    <<"meet", " ", "for", " ", "2", ".", "2", "5", " ", "hours">>,
    <<"meet", " ", "for", " ", "1", ".", " ", "hours">>,
    <<"meet", " ", "for", " ", "2", " ", "hours">>,
    <<"meet", " ", "for", " ", "9", "0", " ", "minutes">>,
    <<"a", " ", "2", "-", "hour", " ", "review">>,
    <<"4", "5", " ", "minutes", " ", "or", " ", "2", " ", "hours">>,
    <<"1", " ", "hour", " ", "3", "0", " ", "minutes">>,
    <<"no", " ", "duration">> }
DurationCalls ==
  { [ fn |-> "extractDateTime", text |-> t,
      now |-> [day |-> 0, ms |-> 10 * MsPerHour],
      said |-> [kind |-> "duration"] ] : t \in DurationTexts }

ExtractDateTimeCalls == AtClauseCalls \cup NextWeekdayCalls \cup DurationCalls

\* inputs of detectIntent (lower case, as fallbackParse passes them), said
\* is the intent of the first pattern of the source's list that matches
\* the text, worked out by hand from the regular expressions
InviteSarah ==
  <<"invite", " ", "sarah", " ", "to", " ", "the", " ", "budget", " ",
    "meeting">>
IntentCases ==
  { [input |-> <<"invite", " ", "sarah", " ", "to", " ", "the", " ",
                 "budget", " ", "meeting">>,
     said |-> "ADD_ATTENDEE"],
    [input |-> <<"add", " ", "sarah", " ", "to", " ", "the", " ", "budget",
                 " ", "meeting">>,
     said |-> "ADD_ATTENDEE"],
    [input |-> <<"add", " ", "a", " ", "meeting">>,
     said |-> "CREATE_EVENT"],
    [input |-> <<"add", " ", "a", " ", "new", " ", "contact">>,
     said |-> "ADD_CONTACT"],
    [input |-> <<"add", " ", "a", " ", "contact", " ", "to", " ", "the",
                 " ", "meeting">>,
     said |-> "ADD_ATTENDEE"],
    [input |-> <<"schedule", " ", "a", " ", "meeting", " ", "to", " ",
                 "remind", " ", "me">>,
     said |-> "CREATE_EVENT"],
    [input |-> <<"remind", " ", "me", " ", "to", " ", "cancel", " ", "the",
                 " ", "meeting">>,
     said |-> "DELETE_EVENT"],
    [input |-> <<"what", " ", "time", " ", "is", " ", "the", " ", "meeting">>,
     said |-> "QUERY_SCHEDULE"],
    [input |-> <<"show", " ", "my", " ", "schedule">>,
     said |-> "LIST_EVENTS"],
    [input |-> <<"show", " ", "the", " ", "schedule", " ", "for", " ",
                 "the", " ", "meeting">>,
     said |-> "CREATE_EVENT"],
    [input |-> <<"hello", " ", "there">>,
     said |-> "UNKNOWN"],
    [input |-> <<"create", " ", "a", " ", "weekly", " ", "sync">>,
     said |-> "CREATE_EVENT"],
    [input |-> <<"find", " ", "time", " ", "for", " ", "a", " ", "meeting",
                 " ", "to", " ", "add">>,
     said |-> "FIND_TIME"],
    [input |-> <<"meeting", " ", "to", " ", "add">>,
     said |-> "UNKNOWN"],
    [input |-> <<"who", " ", "is", " ", "double", "-", "booked">>,
     said |-> "CHECK_CONFLICTS"],
    [input |-> <<"invite", " ", "bob">>,
     said |-> "UNKNOWN"],
    [input |-> <<"to", " ", "invite", " ", "the", " ", "attendee">>,
     said |-> "ADD_ATTENDEE"],
    [input |-> <<"set", " ", "up", " ", "an", " ", "event">>,
     said |-> "CREATE_EVENT"],
    [input |-> <<"reschedule", " ", "the", " ", "meeting", " ", "to", " ",
                 "add", " ", "bob">>,
     said |-> "UPDATE_EVENT"],
    [input |-> <<"what", "'", "s", " ", "on", " ", "my", " ", "calendar">>,
     said |-> "LIST_EVENTS"],
    [input |-> <<"remind", " ", "me", " ", "tomorrow">>,
     said |-> "SET_REMINDER"],
    [input |-> <<"who", " ", "has", " ", "the", " ", "phone">>,
     said |-> "QUERY_CONTACT"] }
DetectIntentCalls ==
  { [fn |-> "detectIntent", input |-> c.input, said |-> c.said] :
      c \in IntentCases }

InitParse ==
  /\ NlpIdle
  /\ cache = <<>>
  /\ now = StartTime
  /\ call \in FallbackParseCalls \cup ValidateCalls \cup ExtractDateTimeCalls
       \cup DetectIntentCalls
  /\ ret = NoRet
  /\ frame = Idle
  /\ setLog = <<>>
  /\ ticks = 0

callFallbackParse ==
  /\ call.fn = "fallbackParse"
  /\ ~ret.done
  /\ ret' = [done |-> TRUE, value |-> fallbackParseEntities(call.input, call.now)]
  /\ UNCHANGED <<cache, now, call, frame, setLog, ticks, nlpVars>>

callValidate ==
  /\ call.fn = "validateAndTransformAIResponse"
  /\ ~ret.done
  /\ ret' = [ done |-> TRUE,
              value |-> validateEntities(call.aiResponse, call.originalText) ]
  /\ UNCHANGED <<cache, now, call, frame, setLog, ticks, nlpVars>>

callExtractDateTime ==
  /\ call.fn = "extractDateTime"
  /\ ~ret.done
  /\ ret' = [done |-> TRUE, value |-> extractDateTime(call.text, call.now)]
  /\ UNCHANGED <<cache, now, call, frame, setLog, ticks, nlpVars>>

callDetectIntent ==
  /\ call.fn = "detectIntent"
  /\ ~ret.done
  /\ ret' = [done |-> TRUE, value |-> detectIntent(call.input)]
  /\ UNCHANGED <<cache, now, call, frame, setLog, ticks, nlpVars>>

NextParse ==
  \/ callFallbackParse
  \/ callValidate
  \/ callExtractDateTime
  \/ callDetectIntent

ParseSpec == InitParse /\ [][NextParse]_vars

\* ================================================================== claims
Done(c) == pc[c] = "done"
Started(c) == c <= started /\ pc[c] # "past"

\* What the Local Fallback Parser is specified to produce for a text.
LocalResult(text) ==
  LET intent == detectIntent(trim(toLowerCase(text)))
  IN  [ intent |-> intent,
        confidence |-> IF intent # "UNKNOWN" THEN 60 ELSE 30,
        originalText |-> text ]

ExpectedLocal == [text \in Texts |-> LocalResult(text)]

\* Every request of the call has failed with a retryable failure.
AllAttemptsFailed(c) ==
  /\ hist[c].reqs >= 1
  /\ hist[c].retryFails = hist[c].reqs

\* C1: with a credential configured, a call all of whose remote attempts
\* failed (network error, timeout, 5xx, 429, empty or malformed output) has
\* resolved, and with the Local Fallback Parser's result for its input: the
\* classifier's intent, confidence 0.6 when the intent is not UNKNOWN and
\* 0.3 otherwise.
C1_TotalFailureFallsBack ==
  \A c \in Calls :
    (apiKey /\ AllAttemptsFailed(c) /\ pc[c] \notin {"awaitHttp", "backoff"})
      => /\ Done(c)
         /\ result[c] = ExpectedLocal[input[c]]

C1_Witness ==
  \E c \in Calls :
    /\ apiKey /\ Done(c) /\ AllAttemptsFailed(c)
    /\ hist[c].reqs = 3
    /\ result[c].intent = "CREATE_EVENT" /\ result[c].confidence = 60

\* parseWithAI was entered by the call (once, if at all).
RemoteInvocations(c) == IF hist[c].reqs > 0 THEN 1 ELSE 0

\* C2: of two calls with the same normalized text, the second starting
\* after the first returned and less than one hour later, the second is
\* served from the cache and the remote client is invoked at most once
\* across both, whatever happened to the first call's remote attempts.
C2_SecondCallServedFromCache ==
  \A i \in Calls : \A j \in Calls :
    ( /\ i < j /\ Done(i) /\ Done(j)
      /\ cacheKey(input[i]) = cacheKey(input[j])
      /\ hist[j].startAt >= hist[i].endAt
      /\ hist[j].startAt - hist[i].endAt < 3600000 )
      => /\ hist[j].path = "hit"
         /\ RemoteInvocations(i) + RemoteInvocations(j) <= 1

\* C3: every call that missed the cache and returned has written its
\* result to the cache under "nlp:" + lowercased-trimmed input with a
\* 3600 s TTL, on every path that produces a result.
C3_MissAlwaysWritesCache ==
  \A c \in Calls :
    (Done(c) /\ hist[c].miss)
      => /\ hist[c].wrote
         /\ (c = started) =>
              LET key == <<"nlp:">> \o trim(toLowerCase(input[c]))
              IN  /\ key \in DOMAIN cache
                  /\ cache[key] = [ data |-> result[c],
                                    timestamp |-> hist[c].endAt,
                                    ttl |-> 3600000 ]

\* The step is call c starting and finding a non-expired entry under its key.
HitStep(c) ==
  /\ pc[c] = "idle" /\ pc'[c] # "idle"
  /\ LET key == cacheKey(input'[c])
     IN  /\ key \in DOMAIN cache
         /\ now' <= cache[key].timestamp + cache[key].ttl

\* C4: a call that finds a non-expired cache entry returns the cached value
\* and does nothing else: no request, no local parse, cache and cool-down
\* deadline unchanged, also while a cool-down is active.
C4_CacheHitTouchesNothing ==
  [][ \A c \in Calls :
        HitStep(c) =>
          /\ pc'[c] = "done"
          /\ result'[c] = cache[cacheKey(input'[c])].data
          /\ cache' = cache
          /\ rateLimitReset' = rateLimitReset
          /\ hist'[c].reqs = 0 /\ hist'[c].fallbackRuns = 0
          /\ ~hist'[c].wrote
          /\ requests' = requests
          /\ \A d \in Calls \ {c} : pc'[d] = "done" => hist'[d] = hist[d] ]_vars

C4_Witness ==
  \E c \in Calls :
    /\ Done(c) /\ hist[c].path = "hit"
    /\ hist[c].resetAtStart > hist[c].startAt
    /\ hist[c].reqs = 0

\* C5: a call that misses the cache while the cool-down deadline is strictly
\* in the future sends no request and returns the Local Fallback Parser's
\* result; a call that misses the cache with a credential configured when
\* the deadline is not in the future goes to the remote client.
C5_CooldownBypassesRemote ==
  \A c \in Calls :
    (Started(c) /\ hist[c].miss)
      => /\ (hist[c].resetAtStart > hist[c].startAt)
              => /\ Done(c)
                 /\ hist[c].reqs = 0
                 /\ result[c] = ExpectedLocal[input[c]]
         /\ (apiKey /\ hist[c].resetAtStart <= hist[c].startAt)
              => hist[c].reqs >= 1

C5_Witness ==
  \E i \in Calls : \E j \in Calls :
    /\ i < j
    /\ Done(i) /\ hist[i].miss /\ hist[i].resetAtStart > hist[i].startAt
    /\ hist[i].reqs = 0
    /\ hist[j].miss /\ hist[j].resetAtStart > 0
    /\ hist[j].resetAtStart <= hist[j].startAt
    /\ hist[j].reqs >= 1

\* C6: a call sends at most 3 requests; it stops at the first valid
\* response; it sends exactly 3 when every attempt fails retryably; after a
\* retryable failure that is not the third (a 429 included) the next thing
\* the call does is send the next request, cool-down or not.
C6_AtMostThreeRequests ==
  /\ [] \A c \in Calls :
          /\ hist[c].reqs <= 3
          /\ (Done(c) /\ hist[c].path = "remote")
               => hist[c].reqs = hist[c].retryFails + 1
          /\ (Done(c) /\ AllAttemptsFailed(c)) => hist[c].reqs = 3
  /\ [][ \A c \in Calls :
           (pc[c] = "backoff" /\ pc'[c] # "backoff")
             => /\ pc'[c] = "awaitHttp"
                /\ hist'[c].reqs = hist[c].reqs + 1 ]_vars

C6_Witness ==
  \E c \in Calls :
    /\ Done(c) /\ AllAttemptsFailed(c) /\ hist[c].reqs = 3
    /\ hist[c].sentCooling

\* C7: when an attempt fails with a status in 400..499 other than 429, the
\* call sends nothing more and sleeps no backoff: parseWithAI throws at
\* once, parseCommand returns the Local Fallback Parser's result, and the
\* cool-down deadline stays as it was.
C7_ClientErrorNotRetried ==
  [][ \A c \in Calls :
        ( /\ pc[c] = "awaitHttp" /\ pc'[c] # "awaitHttp"
          /\ hist'[c].lastClass = "client-error" ) =>
          /\ pc'[c] = "done"
          /\ hist'[c].reqs = hist[c].reqs
          /\ hist'[c].waited = hist[c].waited
          /\ hist'[c].aiExit = "threw"
          /\ result'[c] = ExpectedLocal[input[c]]
          /\ rateLimitReset' = rateLimitReset
          /\ cache' = cache ]_vars

C7_Witness ==
  \E c \in Calls :
    /\ Done(c) /\ hist[c].lastClass = "client-error"
    /\ hist[c].reqs = 2
    /\ rateLimitReset > hist[c].endAt

\* The header's text is an unsigned decimal integer.
IsIntegerText(txt) == txt # <<>> /\ \A k \in 1..Len(txt) : IsDigit(txt[k])

RECURSIVE IntegerValue(_)
IntegerValue(txt) ==
  IF txt = <<>> THEN 0
  ELSE IntegerValue(SubSeq(txt, 1, Len(txt) - 1)) * 10 + DigitValue(txt[Len(txt)])

\* R of claim C8.
ClaimedRetryAfter(h) ==
  IF h.present /\ IsIntegerText(h.text) THEN IntegerValue(h.text) ELSE 60

\* C8: each 429 sets the cool-down deadline to the time the response is
\* handled plus R seconds, R being the header's integer value when it
\* carries one (0 included) and 60 when absent or not a number.
C8_RetryAfterHonoured ==
  [][ \A c \in Calls : \A o \in RateLimitOutcomes : \A lat \in Latencies :
        httpSettled(c, o, lat) =>
          rateLimitReset' = now' + ClaimedRetryAfter(o.retryAfter) * 1000 ]_vars

\* C9: when all 3 attempts fail retryably, parseWithAI returns the Local
\* Fallback Parser's result itself; it does not throw to parseCommand.
C9_ExhaustedRetriesReturn ==
  \A c \in Calls :
    (AllAttemptsFailed(c) /\ hist[c].reqs = 3 /\ pc[c] \notin {"awaitHttp", "backoff"})
      => /\ hist[c].aiExit = "returned"
         /\ hist[c].path # "exception"

\* C10: a call with empty input (empty or whitespace only) does not return
\* a ParsedCommand, and leaves the cache unchanged.
C10_EmptyInputRejected ==
  \A c \in Calls :
    (Started(c) /\ trim(input[c]) = <<>>)
      => /\ ~Done(c)
         /\ ~hist[c].wrote

\* C11: the intent of every ParsedCommand a call returned, and of every
\* ParsedCommand in the cache, is a member of CommandIntent; a call answered
\* by the remote model returns the reply's intent when it is a member and
\* UNKNOWN when it is missing or not a member; the local classifier's
\* intent is a member.
C11_IntentInEnum ==
  /\ \A c \in Calls :
       Done(c) =>
         /\ result[c].intent \in CommandIntent
         /\ (hist[c].path = "remote") =>
              result[c].intent =
                IF hist[c].reply.intent \in CommandIntent
                THEN hist[c].reply.intent ELSE "UNKNOWN"
         /\ (hist[c].path \in {"local", "cooldown", "exception"}) =>
              result[c].intent = detectIntent(trim(toLowerCase(input[c])))
  /\ \A k \in DOMAIN cache : cache[k].data.intent \in CommandIntent

C11_Witness ==
  \E c \in Calls : \E d \in Calls :
    /\ Done(c) /\ hist[c].path = "remote"
    /\ hist[c].reply.intent = "schedule_it"
    /\ result[c].intent = "UNKNOWN"
    /\ cacheKey(input[c]) \in DOMAIN cache
    /\ cache[cacheKey(input[c])].data.intent = "UNKNOWN"
    /\ Done(d) /\ hist[d].path = "remote" /\ hist[d].reply.intent = ""

\* C12: the confidence of every ParsedCommand a call returned is within
\* [0,1] (0..100 hundredths).
C12_ConfidenceInUnitInterval ==
  \A c \in Calls :
    Done(c) => result[c].confidence \in 0..100

\* C13: the originalText of the ParsedCommand a call returned is the call's
\* input verbatim, also when the result came from the cache.
C13_OriginalTextVerbatim ==
  \A c \in Calls :
    Done(c) => result[c].originalText = input[c]

\* C14: get(k), after set(k, v, t) with a positive ttl of t seconds and no
\* later set, delete or clear touching k, returns v while no more than t
\* seconds have passed since the set; once more than t seconds have passed
\* it returns absent and the entry is gone from the map, with or without a
\* sweep in between.
C14_CacheRoundTrip ==
  (call.fn = "get" /\ ret.tracked /\ ret.lastSet.ttl > 0) =>
    IF ret.at - ret.lastSet.at <= ret.lastSet.ttl * 1000
    THEN ret.value = ret.lastSet.value /\ ret.kept
    ELSE ret.value = NoEntry /\ ~ret.kept

C14_Witness ==
  /\ call.fn = "get" /\ ret.tracked /\ ret.lastSet.ttl = 1
  /\ ret.at - ret.lastSet.at = 1001
  /\ ret.value = NoEntry /\ ~ret.kept

\* C15: every instant getOccurrencesInRange returns lies in the closed
\* interval [rangeStart, rangeEnd], and when pattern.occurrences is set the
\* list has at most that many elements.
C15_OccurrencesWithinRange ==
  (call.fn = "getOccurrencesInRange" /\ ret.done) =>
    /\ \A k \in 1..Len(ret.value) :
         /\ NotAfter(call.rangeStart, ret.value[k])
         /\ NotAfter(ret.value[k], call.rangeEnd)
    /\ (call.pattern.occurrences >= 1)
         => Len(ret.value) <= call.pattern.occurrences

C15_Witness ==
  /\ call.fn = "getOccurrencesInRange" /\ ret.done
  /\ Before(call.startDate, call.rangeStart)
  /\ call.pattern.occurrences = 2
  /\ Len(ret.value) = 2

\* The call of claim C16: a WEEKLY pattern with the single weekday of the
\* anchor, threshold not later than the anchor.
SameWeekdayCall ==
  /\ call.fn = "getNextOccurrence" /\ ret.done
  /\ call.pattern.frequency = "WEEKLY"
  /\ call.pattern.daysOfWeek = <<getDay(call.startDate)>>
  /\ NotAfter(call.afterDate, call.startDate)

SevenDaysAfter(date) == [day |-> date.day + 7, ms |-> date.ms]

\* C16 as stated: for such a call getNextOccurrence returns the instant
\* exactly 7 days after the anchor.
C16_WeeklySameWeekdaySevenDays ==
  SameWeekdayCall => ret.value = SevenDaysAfter(call.startDate)

\* C16 amended: for such a call with a pattern that has no endDate earlier
\* than 7 days after the anchor, getNextOccurrence returns the instant
\* exactly 7 days after the anchor; with an earlier endDate it returns null.
C16_WeeklySameWeekdayWithinEnd ==
  SameWeekdayCall =>
    IF call.pattern.endDate = Null
         \/ NotAfter(SevenDaysAfter(call.startDate), call.pattern.endDate)
    THEN ret.value = SevenDaysAfter(call.startDate)
    ELSE ret.value = Null

C16_Witness ==
  /\ SameWeekdayCall
  /\ call.afterDate = call.startDate
  /\ call.pattern.endDate # Null
  /\ call.pattern.occurrences = 1
  /\ ret.value = SevenDaysAfter(call.startDate)

\* A parser has returned a ParsedCommand: the Local Fallback Parser (what
\* parseCommand returns without the remote client) or the validation of a
\* remote reply.
Parsed == call.fn \in {"fallbackParse", "validateAndTransformAIResponse"} /\ ret.done

\* C17: the recurringPattern of a returned ParsedCommand never has both
\* endDate and occurrences set, on the local and on the remote path.
C17_EndDateOrOccurrences ==
  (Parsed /\ ret.value.entities.recurringPattern # NoPattern) =>
    ~( /\ ret.value.entities.recurringPattern.endDate # Null
       /\ ret.value.entities.recurringPattern.occurrences # 0 )

\* C18: the timeRange of a returned ParsedCommand has start strictly
\* earlier than end, on the local and on the remote path.
C18_TimeRangeStartBeforeEnd ==
  (Parsed /\ ret.value.entities.timeRange.found) =>
    Before(ret.value.entities.timeRange.start, ret.value.entities.timeRange.end)

\* C19: the local parse of "Schedule a meeting with John tomorrow at 2pm"
\* has intent CREATE_EVENT, attendees ["John"], dateTime tomorrow at 14:00,
\* duration 60 and confidence 0.6.
C19_ScheduleWithJohnTomorrow ==
  (call.fn = "fallbackParse" /\ call.input = ScheduleWithJohn /\ ret.done) =>
    /\ ret.value.intent = "CREATE_EVENT"
    /\ ret.value.entities.attendees = << <<"John">> >>
    /\ ret.value.entities.dateTime =
         [day |-> call.now.day + 1, ms |-> 14 * MsPerHour]
    /\ ret.value.entities.duration = 60
    /\ ret.value.confidence = 60

\* C20: the local parse of "Create a team standup every Monday at 9am" has
\* a recurringPattern with frequency WEEKLY, interval 1 and daysOfWeek [1],
\* and a dateTime whose time of day is 9:00.
C20_StandupEveryMonday ==
  (call.fn = "fallbackParse" /\ call.input = StandupEveryMonday /\ ret.done) =>
    /\ ret.value.entities.recurringPattern.frequency = "WEEKLY"
    /\ ret.value.entities.recurringPattern.interval = 1
    /\ ret.value.entities.recurringPattern.daysOfWeek = <<1>>
    /\ ret.value.entities.dateTime # Null
    /\ ret.value.entities.dateTime.ms = 9 * MsPerHour

\* The 12-hour form of an hour of the day: 0 is 12 am, 13 is 1 pm.
TwelveHour(h) ==
  [ hour |-> IF h % 12 = 0 THEN 12 ELSE h % 12,
    period |-> IF h < 12 THEN "am" ELSE "pm" ]

AtClauseDone == call.fn = "extractDateTime" /\ call.said.kind = "at" /\ ret.done

\* C21: for every input the extractor accepts through "at H(:MM)(am|pm)",
\* the hour of the resolved dateTime in 12-hour form is the input's H and
\* period.
C21_TwelveHourRoundTrip ==
  AtClauseDone =>
    /\ ret.value.dateTime # Null
    /\ TwelveHour(getHours(ret.value.dateTime)) =
         [hour |-> call.said.hour, period |-> call.said.period]

NextWeekdayDone ==
  call.fn = "extractDateTime" /\ call.said.kind = "next" /\ ret.done

\* t - c when that is positive, t - c + 7 otherwise
ForwardDays(t, c) == IF t - c > 0 THEN t - c ELSE t - c + 7

\* C22: "next <weekday>" with target weekday t, said on weekday c, resolves
\* to the reference date plus ForwardDays(t, c) days, a number in 1..7 that
\* is 7 when t = c; the resolved date is not the reference day and its
\* weekday is t.
C22_NextWeekdayOffset ==
  NextWeekdayDone =>
    /\ ret.value.dateTime # Null
    /\ ret.value.dateTime.day - call.now.day =
         ForwardDays(call.said.targetDay, getDay(call.now))
    /\ (ret.value.dateTime.day - call.now.day) \in 1..7
    /\ ret.value.dateTime.ms = call.now.ms
    /\ getDay(ret.value.dateTime) = call.said.targetDay

\* "next <weekday>" said on that weekday has resolved to a week later
C22_Witness ==
  /\ NextWeekdayDone
  /\ call.said.targetDay = getDay(call.now)
  /\ ret.value.dateTime.day = call.now.day + 7

\* C27: "1.5 hours" yields duration 90.
C27_HourAndHalfIsNinety ==
  (call.fn = "extractDateTime" /\ call.text = HourAndHalf /\ ret.done) =>
    ret.value.duration = 90

DetectIntentDone == call.fn = "detectIntent" /\ ret.done

\* the patterns of the list that match the input
MatchingPatterns(s) ==
  { n \in 1..Len(intentPatterns) : PatternTest(intentPatterns[n], s) }

\* C23: detectIntent returns the intent of the lowest-index pattern of its
\* list that matches the input, UNKNOWN when none matches; an input that
\* matches both the add-attendee and the generic create-event pattern is
\* ADD_ATTENDEE, and so is "invite sarah to the budget meeting".
C23_FirstMatchingIntent ==
  DetectIntentDone =>
    /\ ret.value = call.said
    /\ (MatchingPatterns(call.input) = {}) <=> (ret.value = "UNKNOWN")
    /\ \A n \in MatchingPatterns(call.input) :
         (\A m \in MatchingPatterns(call.input) : n <= m) =>
           ret.value = intentPatterns[n].intent
    /\ {1, 2} \subseteq MatchingPatterns(call.input) => ret.value = "ADD_ATTENDEE"
    /\ call.input = InviteSarah => ret.value = "ADD_ATTENDEE"

\* an input matching the add-attendee, the create-event and the add-contact
\* patterns has been classified ADD_ATTENDEE
C23_Witness ==
  /\ DetectIntentDone
  /\ {1, 2, 7} \subseteq MatchingPatterns(call.input)
  /\ ret.value = "ADD_ATTENDEE"

\* C29: every call of getNextOccurrence and of getOccurrencesInRange
\* returns, for every pattern of the declared type.
C29_HelpersTerminate == <>ret.done

\* C25: an instant getNextOccurrence returns is strictly later than
\* afterDate, strictly later than startDate, and not later than
\* pattern.endDate when that is set.
C25_NextOccurrenceBounds ==
  (call.fn = "getNextOccurrence" /\ ret.done /\ ret.value # Null) =>
    /\ Before(call.afterDate, ret.value)
    /\ Before(call.startDate, ret.value)
    /\ call.pattern.endDate # Null => NotAfter(ret.value, call.pattern.endDate)

\* The series of a DAILY or WEEKLY pattern, day by day: the anchor's day,
\* and each day the pattern's step reaches from it (every IntervalOrOne
\* days, every 7 * IntervalOrOne days, or every day of daysOfWeek); all its
\* instants have the anchor's time of day.
StepsByDays(pattern) == pattern.frequency \in {"DAILY", "WEEKLY"}

IsInstanceDay(startDate, pattern, d) ==
  /\ d >= startDate.day
  /\ CASE pattern.frequency = "DAILY" ->
            (d - startDate.day) % IntervalOrOne(pattern) = 0
       [] pattern.frequency = "WEEKLY" /\ Len(pattern.daysOfWeek) = 0 ->
            (d - startDate.day) % (7 * IntervalOrOne(pattern)) = 0
       [] OTHER ->
            d = startDate.day \/ Includes(pattern.daysOfWeek, (d + 1) % 7)

\* the number of the instance on day d, the anchor being instance 1
InstanceNumber(startDate, pattern, d) ==
  Cardinality({ e \in startDate.day..d : IsInstanceDay(startDate, pattern, e) })

WithinCaps(startDate, pattern, d) ==
  /\ pattern.occurrences # 0 =>
       InstanceNumber(startDate, pattern, d) <= pattern.occurrences
  /\ pattern.endDate # Null =>
       NotAfter([day |-> d, ms |-> startDate.ms], pattern.endDate)

OccurrencesReturned == call.fn = "getOccurrencesInRange" /\ ret.done

\* C24: getOccurrencesInRange returns, in strictly ascending order, every
\* instance of the series within the pattern's caps that lies in
\* [rangeStart, rangeEnd], an instance exactly on rangeStart included
\* (stated for the patterns that step by days).
C24_EveryInstanceInRange ==
  (OccurrencesReturned /\ StepsByDays(call.pattern)) =>
    /\ \A k \in 1..(Len(ret.value) - 1) : Before(ret.value[k], ret.value[k + 1])
    /\ \A d \in call.startDate.day..call.rangeEnd.day :
         ( /\ IsInstanceDay(call.startDate, call.pattern, d)
           /\ WithinCaps(call.startDate, call.pattern, d)
           /\ InRange([day |-> d, ms |-> call.startDate.ms], call.rangeStart,
                      call.rangeEnd) )
         => Includes(ret.value, [day |-> d, ms |-> call.startDate.ms])

\* C30: with pattern.occurrences = n, neither helper yields an instance
\* numbered n + 1 or higher, the anchor being instance 1 (stated for the
\* patterns that step by days).
C30_CapCountedFromAnchor ==
  (ret.done /\ call.pattern.occurrences # 0 /\ StepsByDays(call.pattern)) =>
    /\ (call.fn = "getNextOccurrence" /\ ret.value # Null) =>
         InstanceNumber(call.startDate, call.pattern, ret.value.day)
           <= call.pattern.occurrences
    /\ call.fn = "getOccurrencesInRange" =>
         \A k \in 1..Len(ret.value) :
           InstanceNumber(call.startDate, call.pattern, ret.value[k].day)
             <= call.pattern.occurrences

\* Calls i and i + 1 for the same normalized text, both missing the cache,
\* the second started before the first returned; both have returned.
Overlapped(i, j) ==
  /\ j = i + 1 /\ Done(i) /\ Done(j)
  /\ cacheKey(input[i]) = cacheKey(input[j])
  /\ hist[i].miss /\ hist[j].miss
  /\ hist[j].startAt < hist[i].endAt

\* the cache entry a call's cache.set makes
EntryOf(c) ==
  [data |-> result[c], timestamp |-> hist[c].endAt, ttl |-> 3600000]

\* the one of i and j that wrote the cache last
LastWriter(i, j) ==
  IF ~hist[j].wrote THEN i
  ELSE IF ~hist[i].wrote THEN j
  ELSE IF hist[i].endAt > hist[j].endAt THEN i ELSE j

ValidatedReplies(text) ==
  { validateAndTransformAIResponse(o.reply, text) : o \in SuccessOutcomes }

====
